---------------------------- MODULE Spec2Model ----------------------------
(***************************************************************************)
(* Rich-content pipeline of the portfolio site: the text normaliser, the   *)
(* block parser (parseBlocks), the heading ids RichText assigns, and the   *)
(* annotated code viewer (InteractiveCodeViewer).                          *)
(*                                                                         *)
(* Strings are sequences of one-character strings, so that the regular     *)
(* expressions of the source are computed character by character.          *)
(***************************************************************************)
EXTENDS Integers, Sequences, FiniteSets, TLC

VARIABLES
    \* normalizeMarkdownText applied repeatedly to one text
    nIn, nOut,
    \* one call of RichText: parseBlocks, then the heading ids of the render
    input, lines, i, blocks, pc, iter, headingCounts, rendered,
    \* the snippetRenderer prop of that call
    snippetRenderer,
    \* one mounted InteractiveCodeViewer
    snippet, annotations, mounted, hoveredAnnotation, selectedAnnotation,
    loadedCode, effects,
    \* history: the last pointer event or props change of the viewer and the
    \* state it acted on (recorded under SpecSelect only)
    event,
    \* ProjectDetail: the table of contents extracted from the text
    toc,
    \* ProjectDetail: the route parameter, the project and loading states, and
    \* the loads started by the load effect
    slug, project, loading, loads,
    \* the mobile menu of the Navbar and the mobile table-of-contents panel
    mobileMenuOpen, mobileTocOpen,
    \* history: the last `codefolio:overlay` event dispatched on window and
    \* whether the other panel was open when it was dispatched
    overlayEvent,
    \* one call of mergeProjects: its arguments and its result
    fileList, draftList, merged

normVars == <<nIn, nOut>>
richVars == <<input, lines, i, blocks, pc, iter, headingCounts, rendered, snippetRenderer>>
viewerVars == <<snippet, annotations, mounted, hoveredAnnotation,
                selectedAnnotation, loadedCode, effects, event>>
tocVars == <<toc>>
routeVars == <<slug, project, loading, loads, mobileMenuOpen, mobileTocOpen, overlayEvent>>
libVars == <<fileList, draftList, merged>>
pageVars == <<tocVars, routeVars, libVars>>
vars == <<normVars, richVars, viewerVars, pageVars>>

\* null and undefined where the source holds a string (no text is made of
\* these tokens: a character is a string of length one)
Null == <<"null">>
Undefined == <<"undefined">>

(***************************************************************************)
(* Characters and the string helpers of JavaScript the source uses.        *)
(***************************************************************************)
LF == "\n"
CR == "\r"
BS == "\\"
TAB == "\t"

\* \s of a JavaScript regular expression, and the characters trim() removes
Ws == {" ", TAB, LF, CR}

UpperChars == <<"A","B","C","D","E","F","G","H","I","J","K","L","M",
                "N","O","P","Q","R","S","T","U","V","W","X","Y","Z">>
LowerChars == <<"a","b","c","d","e","f","g","h","i","j","k","l","m",
                "n","o","p","q","r","s","t","u","v","w","x","y","z">>
Digits == <<"0","1","2","3","4","5","6","7","8","9">>

ToLowerChar(c) ==
    IF \E k \in 1..26 : UpperChars[k] = c
    THEN LowerChars[CHOOSE k \in 1..26 : UpperChars[k] = c]
    ELSE c

toLowerCase(s) == [k \in 1..Len(s) |-> ToLowerChar(s[k])]

\* s.slice(a, b) with 0-based a (inclusive) and b (exclusive)
Slice(s, a, b) == IF b <= a THEN <<>> ELSE SubSeq(s, a + 1, b)

startsWith(s, p) == Len(s) >= Len(p) /\ SubSeq(s, 1, Len(p)) = p
endsWith(s, p) == Len(s) >= Len(p) /\ SubSeq(s, Len(s) - Len(p) + 1, Len(s)) = p

\* s.startsWith(p, at) with a 0-based position
StartsAt(s, p, at) == Len(s) >= at + Len(p) /\ SubSeq(s, at + 1, at + Len(p)) = p

\* number of leading / trailing whitespace characters
RECURSIVE LeadWs(_)
LeadWs(s) == IF s = <<>> \/ Head(s) \notin Ws THEN 0 ELSE 1 + LeadWs(Tail(s))

RECURSIVE TrailWs(_)
TrailWs(s) ==
    IF s = <<>> \/ s[Len(s)] \notin Ws THEN 0
    ELSE 1 + TrailWs(SubSeq(s, 1, Len(s) - 1))

trimEnd(s) == SubSeq(s, 1, Len(s) - TrailWs(s))
trimStart(s) == SubSeq(s, LeadWs(s) + 1, Len(s))
trim(s) == trimStart(trimEnd(s))

\* s.indexOf(c): 0-based position of the first c, or -1
indexOf(s, c) ==
    LET hits == {k \in 1..Len(s) : s[k] = c}
    IN  IF hits = {} THEN -1 ELSE (CHOOSE k \in hits : \A j \in hits : k <= j) - 1

\* 0-based position of the first occurrence of `pat` in s, or -1
indexOfSeq(s, pat) ==
    LET hits == {k \in 0..(Len(s) - Len(pat)) : StartsAt(s, pat, k)}
    IN  IF hits = {} THEN -1 ELSE CHOOSE k \in hits : \A j \in hits : k <= j

\* s.replace(/pat/g, rep) for a literal pattern: leftmost, non-overlapping
RECURSIVE ReplaceAll(_, _, _)
ReplaceAll(s, pat, rep) ==
    LET at == indexOfSeq(s, pat)
    IN  IF at = -1 THEN s
        ELSE Slice(s, 0, at) \o rep
             \o ReplaceAll(SubSeq(s, at + Len(pat) + 1, Len(s)), pat, rep)

\* s.split('\n'): always at least one line
RECURSIVE Split(_, _)
Split(s, sep) ==
    LET at == indexOf(s, sep)
    IN  IF at = -1 THEN <<s>>
        ELSE <<Slice(s, 0, at)>> \o Split(Slice(s, at + 1, Len(s)), sep)

\* parts.join('\n')
RECURSIVE Join(_, _)
Join(parts, sep) ==
    IF parts = <<>> THEN <<>>
    ELSE IF Len(parts) = 1 THEN parts[1]
    ELSE parts[1] \o <<sep>> \o Join(Tail(parts), sep)

(***************************************************************************)
(* lib/markdown: normalizeMarkdownText                                     *)
(***************************************************************************)
\* A plausible slip: the literal \r escape is stripped instead of being
\* turned into a line feed.
normalizeMarkdownTextStrip(s) ==
    LET a == ReplaceAll(s, <<BS, "r", BS, "n">>, <<LF>>)
        b == ReplaceAll(a, <<BS, "n">>, <<LF>>)
        c == ReplaceAll(b, <<BS, "r">>, <<>>)
        d == ReplaceAll(c, <<CR, LF>>, <<LF>>)
    IN  ReplaceAll(d, <<CR>>, <<LF>>)

normalizeMarkdownText(s) ==
    LET a == ReplaceAll(s, <<BS, "r", BS, "n">>, <<LF>>)
        b == ReplaceAll(a, <<BS, "n">>, <<LF>>)
        c == ReplaceAll(b, <<BS, "r">>, <<LF>>)
        d == ReplaceAll(c, <<CR, LF>>, <<LF>>)
    IN  ReplaceAll(d, <<CR>>, <<LF>>)


(***************************************************************************)
(* RichText.tsx: the block type and its constructors                       *)
(***************************************************************************)
HeadingBlock(level, text, tocHidden) ==
    [type |-> "heading", level |-> level, text |-> text, tocHidden |-> tocHidden]
ImageBlock(alt, src) == [type |-> "image", alt |-> alt, src |-> src]
CarouselBlock(images) == [type |-> "carousel", images |-> images]
SnippetBlock(id, caption) == [type |-> "snippet", id |-> id, caption |-> caption]
YoutubeBlock(embedUrl) == [type |-> "youtube", embedUrl |-> embedUrl]
ListBlock(items) == [type |-> "list", items |-> items]
ParagraphBlock(text) == [type |-> "paragraph", text |-> text]

NoMatch == [ok |-> FALSE]

(***************************************************************************)
(* The regular expressions of parseBlocks, each computed as the JavaScript *)
(* engine matches it (alternatives in order, greedy quantifiers).          *)
(***************************************************************************)
\* `.` matches any character but a line terminator
IsDot(c) == c \notin {LF, CR}

Hashes(n) == [k \in 1..n |-> "#"]

\* \s+(.+)$ on `rest`: the greedy \s+ gives back one character when the
\* whitespace runs to the end, so that (.+) is not empty.
WsThenText(rest) ==
    LET w == LeadWs(rest)
        k == IF w = Len(rest) THEN w - 1 ELSE w
        text == SubSeq(rest, k + 1, Len(rest))
    IN  IF k >= 1 /\ \A n \in 1..Len(text) : IsDot(text[n])
        THEN [ok |-> TRUE, text |-> text]
        ELSE NoMatch

\* one way through /^(##|###)(!)?\s+(.+)$/: marker of `n` hashes, `!` taken or not
HeadingTry(line, n, bang) ==
    IF startsWith(line, Hashes(n)) /\ (bang => StartsAt(line, <<"!">>, n))
    THEN LET m == WsThenText(SubSeq(line, n + (IF bang THEN 2 ELSE 1), Len(line)))
         IN  IF m.ok
             THEN [ok |-> TRUE, marker |-> Hashes(n), bang |-> bang, text |-> m.text]
             ELSE NoMatch
    ELSE NoMatch

\* A plausible slip: the `!` is matched but not captured,
\* /^(##|###)!?\s+(.+)$/, so that no heading is ever hidden
HeadingMatchNeverHidden(line) ==
    LET m == IF HeadingTry(line, 2, TRUE).ok THEN HeadingTry(line, 2, TRUE)
             ELSE IF HeadingTry(line, 2, FALSE).ok THEN HeadingTry(line, 2, FALSE)
             ELSE IF HeadingTry(line, 3, TRUE).ok THEN HeadingTry(line, 3, TRUE)
             ELSE HeadingTry(line, 3, FALSE)
    IN  IF m.ok THEN [m EXCEPT !.bang = FALSE] ELSE m

\* line.match(/^(##|###)(!)?\s+(.+)$/)
HeadingMatch(line) ==
    IF HeadingTry(line, 2, TRUE).ok THEN HeadingTry(line, 2, TRUE)
    ELSE IF HeadingTry(line, 2, FALSE).ok THEN HeadingTry(line, 2, FALSE)
    ELSE IF HeadingTry(line, 3, TRUE).ok THEN HeadingTry(line, 3, TRUE)
    ELSE HeadingTry(line, 3, FALSE)

\* /^#{2,3}!\s+/.test(line) || /^#{2,3}\s+/.test(line)
HeadingStartTest(line) ==
    \E n \in {2, 3} :
        /\ startsWith(line, Hashes(n))
        /\ \/ Len(line) >= n + 2 /\ line[n + 1] = "!" /\ line[n + 2] \in Ws
           \/ Len(line) >= n + 1 /\ line[n + 1] \in Ws

\* /^-\s+/.test(line)
ListStartTest(line) == Len(line) >= 2 /\ line[1] = "-" /\ line[2] \in Ws

\* number of leading dashes
RECURSIVE LeadDashes(_)
LeadDashes(s) == IF s = <<>> \/ Head(s) # "-" THEN 0 ELSE 1 + LeadDashes(Tail(s))

\* l.match(/^-+\s+(.+)$/)
ListItemMatch(l) ==
    LET d == LeadDashes(l)
    IN  IF d >= 1 THEN WsThenText(SubSeq(l, d + 1, Len(l))) ELSE NoMatch

AllWs(s) == \A k \in 1..Len(s) : s[k] \in Ws

\* t.match(/^!\[([^\]]*)]\(([^)]+)\)\s*$/)
ImageMatch(t) ==
    IF ~startsWith(t, <<"!", "[">>) THEN NoMatch
    ELSE LET afterOpen == SubSeq(t, 3, Len(t))
             a == indexOf(afterOpen, "]")
         IN  IF a = -1 THEN NoMatch
             ELSE LET afterAlt == SubSeq(afterOpen, a + 2, Len(afterOpen))
                  IN  IF ~startsWith(afterAlt, <<"(">>) THEN NoMatch
                      ELSE LET inner == Tail(afterAlt)
                               c == indexOf(inner, ")")
                           IN  IF c >= 1 /\ AllWs(SubSeq(inner, c + 2, Len(inner)))
                               THEN [ok |-> TRUE, alt |-> Slice(afterOpen, 0, a),
                                     src |-> Slice(inner, 0, c)]
                               ELSE NoMatch

\* t.match(/^<prefix>([^)]+)\)\s*$/i), prefix being "@youtube(" or "@snippet("
DirectiveMatch(t, prefix) ==
    IF Len(t) >= Len(prefix) /\ toLowerCase(SubSeq(t, 1, Len(prefix))) = prefix
    THEN LET inner == SubSeq(t, Len(prefix) + 1, Len(t))
             c == indexOf(inner, ")")
         IN  IF c >= 1 /\ AllWs(SubSeq(inner, c + 2, Len(inner)))
             THEN [ok |-> TRUE, inside |-> Slice(inner, 0, c)]
             ELSE NoMatch
    ELSE NoMatch

AtYoutube == <<"@", "y", "o", "u", "t", "u", "b", "e", "(">>
AtSnippet == <<"@", "s", "n", "i", "p", "p", "e", "t", "(">>

YoutubeMatch(t) == DirectiveMatch(t, AtYoutube)
SnippetMatch(t) == DirectiveMatch(t, AtSnippet)

(***************************************************************************)
(* toYouTubeEmbedUrl.  `new URL(x)` is modelled for absolute URLs of the   *)
(* form scheme://host[:port][/path][?query][#fragment] over characters     *)
(* that need no percent-encoding; anything else throws or has no host,     *)
(* and both end in `return null`.                                          *)
(***************************************************************************)
IsAlpha(c) == \E k \in 1..26 : c = UpperChars[k] \/ c = LowerChars[k]
IsDigit(c) == \E k \in 1..10 : c = Digits[k]

\* 0-based position of the first character of s that is in `stops`, or Len(s)
FirstOf(s, stops) ==
    LET hits == {k \in 1..Len(s) : s[k] \in stops}
    IN  IF hits = {} THEN Len(s) ELSE (CHOOSE k \in hits : \A j \in hits : k <= j) - 1

NewURL(x) ==
    LET colon == indexOf(x, ":")
        scheme == Slice(x, 0, colon)
    IN  IF  \/ colon < 1
            \/ ~IsAlpha(x[1])
            \/ \E k \in 1..Len(scheme) :
                   ~(IsAlpha(scheme[k]) \/ IsDigit(scheme[k]) \/ scheme[k] \in {"+", "-", "."})
            \/ ~StartsAt(x, <<"/", "/">>, colon + 1)
        THEN NoMatch
        ELSE LET rest == SubSeq(x, colon + 4, Len(x))
                 hostEnd == FirstOf(rest, {"/", "?", "#"})
                 authority == Slice(rest, 0, hostEnd)
                 hostname == toLowerCase(Slice(authority, 0, FirstOf(authority, {":"})))
                 afterHost == SubSeq(rest, hostEnd + 1, Len(rest))
                 pathEnd == FirstOf(afterHost, {"?", "#"})
                 path == Slice(afterHost, 0, pathEnd)
                 afterPath == SubSeq(afterHost, pathEnd + 1, Len(afterHost))
                 query == IF startsWith(afterPath, <<"?">>)
                          THEN Slice(afterPath, 1, FirstOf(afterPath, {"#"}))
                          ELSE <<>>
             IN  IF hostname = <<>> THEN NoMatch
                 ELSE [ok |-> TRUE, hostname |-> hostname,
                       pathname |-> IF path = <<>> THEN <<"/">> ELSE path,
                       search |-> query]

\* u.searchParams.get(name): the value of the first pair with that name
RECURSIVE SearchParamsGet(_, _)
SearchParamsGet(query, name) ==
    IF query = <<>> THEN Null
    ELSE LET amp == FirstOf(query, {"&"})
             pair == Slice(query, 0, amp)
             eq == FirstOf(pair, {"="})
         IN  IF pair # <<>> /\ Slice(pair, 0, eq) = name
             THEN [k \in 1..Len(Slice(pair, eq + 1, Len(pair))) |->
                      LET c == Slice(pair, eq + 1, Len(pair))[k]
                      IN  IF c = "+" THEN " " ELSE c]
             ELSE SearchParamsGet(SubSeq(query, amp + 2, Len(query)), name)

\* encodeURIComponent: unreserved characters stay, the others are escaped
EncodeChar(c) ==
    IF IsAlpha(c) \/ IsDigit(c) \/ c \in {"-", "_", ".", "!", "~", "*", "'", "(", ")"}
    THEN <<c>>
    ELSE CASE c = "/" -> <<"%", "2", "F">>
           [] c = " " -> <<"%", "2", "0">>
           [] c = "?" -> <<"%", "3", "F">>
           [] c = "=" -> <<"%", "3", "D">>
           [] c = "&" -> <<"%", "2", "6">>
           [] c = ":" -> <<"%", "3", "A">>
           [] c = "#" -> <<"%", "2", "3">>
           [] c = "%" -> <<"%", "2", "5">>
           [] OTHER -> <<"%", c>>

RECURSIVE encodeURIComponent(_)
encodeURIComponent(s) ==
    IF s = <<>> THEN <<>> ELSE EncodeChar(Head(s)) \o encodeURIComponent(Tail(s))

EmbedPrefix ==
    <<"h","t","t","p","s",":","/","/","w","w","w",".","y","o","u","t","u","b","e",
      ".","c","o","m","/","e","m","b","e","d","/">>

Www == <<"w", "w", "w", ".">>
YoutuBe == <<"y","o","u","t","u",".","b","e">>
YoutubeCom == <<"y","o","u","t","u","b","e",".","c","o","m">>
SlashWatch == <<"/","w","a","t","c","h">>
SlashEmbedSlash == <<"/","e","m","b","e","d","/">>

toYouTubeEmbedUrl(inputUrl) ==
    LET u == NewURL(inputUrl)
    IN  IF ~u.ok THEN Null
        ELSE LET host == toLowerCase(IF startsWith(u.hostname, Www)
                                     THEN SubSeq(u.hostname, 5, Len(u.hostname))
                                     ELSE u.hostname)
             IN  IF host = YoutuBe
                 THEN LET id == IF startsWith(u.pathname, <<"/">>)
                                THEN Tail(u.pathname) ELSE u.pathname
                      IN  IF id # <<>> THEN EmbedPrefix \o encodeURIComponent(id) ELSE Null
                 ELSE IF host = YoutubeCom
                 THEN IF u.pathname = SlashWatch
                      THEN LET id == SearchParamsGet(u.search, <<"v">>)
                           IN  IF id # Null /\ id # <<>>
                               THEN EmbedPrefix \o encodeURIComponent(id) ELSE Null
                      ELSE \* u.pathname.match(/^\/embed\/([^/]+)$/)
                           LET id == SubSeq(u.pathname, Len(SlashEmbedSlash) + 1, Len(u.pathname))
                           IN  IF /\ startsWith(u.pathname, SlashEmbedSlash)
                                  /\ id # <<>>
                                  /\ \A k \in 1..Len(id) : id[k] # "/"
                               THEN EmbedPrefix \o encodeURIComponent(id)
                               ELSE Null
                 ELSE Null

(***************************************************************************)
(* parseBlocks.  Line indices are 0-based as in the source: lines[j] of    *)
(* the source is ls[j + 1] here.                                           *)
(***************************************************************************)
\* consumeParagraph's while loop from index j with `parts` collected so far:
\* the index it stops at and the parts
RECURSIVE ParagraphLines(_, _, _)
ParagraphLines(ls, j, parts) ==
    IF j >= Len(ls) THEN [i |-> j, parts |-> parts]
    ELSE LET line == ls[j + 1]
         IN  IF  \/ trim(line) = <<>>
                 \/ HeadingStartTest(line)
                 \/ ListStartTest(line)
                 \/ ImageMatch(trim(line)).ok
             THEN [i |-> j, parts |-> parts]
             ELSE ParagraphLines(ls, j + 1, Append(parts, line))

\* A plausible slip: the joined text is pushed without .trim()
consumeParagraphUntrimmed(ls, j) ==
    LET r == ParagraphLines(ls, j, <<>>)
        text == Join(r.parts, LF)
    IN  [i |-> r.i,
         pushed |-> IF text # <<>> THEN <<ParagraphBlock(text)>> ELSE <<>>]

\* consumeParagraph() called with i = j: the new i and the blocks pushed
consumeParagraph(ls, j) ==
    LET r == ParagraphLines(ls, j, <<>>)
        text == trim(Join(r.parts, LF))
    IN  [i |-> r.i,
         pushed |-> IF text # <<>> THEN <<ParagraphBlock(text)>> ELSE <<>>]

\* A plausible slip: a blank line ends the run
RECURSIVE ImageRunNoBlank(_, _, _)
ImageRunNoBlank(ls, j, images) ==
    IF j >= Len(ls) THEN [i |-> j, images |-> images]
    ELSE LET m == ImageMatch(trim(ls[j + 1]))
         IN  IF ~m.ok THEN [i |-> j, images |-> images]
             ELSE ImageRunNoBlank(ls, j + 1,
                                  Append(images, [alt |-> trim(m.alt), src |-> trim(m.src)]))

\* the image run after its first image: blank lines are skipped, the run
\* ends at the first non-blank line that is not an image
RECURSIVE ImageRun(_, _, _)
ImageRun(ls, j, images) ==
    IF j >= Len(ls) THEN [i |-> j, images |-> images]
    ELSE LET next == trim(ls[j + 1])
             m == ImageMatch(next)
         IN  IF next = <<>> THEN ImageRun(ls, j + 1, images)
             ELSE IF ~m.ok THEN [i |-> j, images |-> images]
             ELSE ImageRun(ls, j + 1,
                           Append(images, [alt |-> trim(m.alt), src |-> trim(m.src)]))

\* a list loop that passes over the line that ends the list
RECURSIVE ListRunSkipsEnd(_, _, _)
ListRunSkipsEnd(ls, j, items) ==
    IF j >= Len(ls) THEN [i |-> j, items |-> items]
    ELSE LET m == ListItemMatch(trimEnd(ls[j + 1]))
         IN  IF ~m.ok THEN [i |-> j + 1, items |-> items]
             ELSE ListRunSkipsEnd(ls, j + 1, Append(items, trim(m.text)))

\* the while loop of the list case
RECURSIVE ListRun(_, _, _)
ListRun(ls, j, items) ==
    IF j >= Len(ls) THEN [i |-> j, items |-> items]
    ELSE LET m == ListItemMatch(trimEnd(ls[j + 1]))
         IN  IF ~m.ok THEN [i |-> j, items |-> items]
             ELSE ListRun(ls, j + 1, Append(items, trim(m.text)))

IsQuoted(rawCaption, q) == startsWith(rawCaption, <<q>>) /\ endsWith(rawCaption, <<q>>)

\* the snippet block of a @snippet(inside) line
SnippetOf(insideRaw) ==
    LET inside == trim(insideRaw)
        comma == indexOf(inside, ",")
        id == trim(IF comma = -1 THEN inside ELSE Slice(inside, 0, comma))
        rawCaption == IF comma = -1 THEN <<>>
                      ELSE trim(Slice(inside, comma + 1, Len(inside)))
        caption == IF Len(rawCaption) > 1
                      /\ (IsQuoted(rawCaption, "\"") \/ IsQuoted(rawCaption, "'"))
                   THEN trim(Slice(rawCaption, 1, Len(rawCaption) - 1))
                   ELSE rawCaption
    IN  SnippetBlock(id, IF caption # <<>> THEN caption ELSE Undefined)

\* the block of a @youtube(inside) line (`line` is the right-trimmed line)
YoutubeOf(insideRaw, line) ==
    LET embedUrl == toYouTubeEmbedUrl(trim(insideRaw))
    IN  IF embedUrl # Null THEN YoutubeBlock(embedUrl) ELSE ParagraphBlock(line)

\* one iteration of the main loop `while (i < lines.length)` with i = j:
\* the new i and the blocks pushed
LoopBody(ls, j) ==
    LET raw == ls[j + 1]
        line == trimEnd(raw)
        h == HeadingMatch(line)
        img == ImageMatch(trim(line))
        yt == YoutubeMatch(trim(line))
        snip == SnippetMatch(trim(line))
    IN  IF trim(line) = <<>> THEN [i |-> j + 1, pushed |-> <<>>]
        ELSE IF h.ok
        THEN [i |-> j + 1,
              pushed |-> <<HeadingBlock(IF h.marker = Hashes(2) THEN 2 ELSE 3,
                                        trim(h.text), h.bang)>>]
        ELSE IF img.ok
        THEN LET run == ImageRun(ls, j + 1, <<[alt |-> trim(img.alt), src |-> trim(img.src)]>>)
             IN  [i |-> run.i,
                  pushed |-> IF Len(run.images) <= 1
                             THEN <<ImageBlock(run.images[1].alt, run.images[1].src)>>
                             ELSE <<CarouselBlock(run.images)>>]
        ELSE IF yt.ok
        THEN [i |-> j + 1, pushed |-> <<YoutubeOf(yt.inside, line)>>]
        ELSE IF snip.ok
        THEN [i |-> j + 1, pushed |-> <<SnippetOf(snip.inside)>>]
        ELSE IF ListStartTest(line)
        THEN LET run == ListRun(ls, j, <<>>)
             IN  [i |-> run.i,
                  pushed |-> IF Len(run.items) > 0 THEN <<ListBlock(run.items)>> ELSE <<>>]
        ELSE consumeParagraph(ls, j)

(***************************************************************************)
(* lib/markdown: slugifyHeading.  The characters outside ASCII the         *)
(* function treats specially are tokens: "dotless_i" (U+0131), "e_acute"   *)
(* (U+00E9, which NFKD splits into e and "combining_acute", U+0301).       *)
(***************************************************************************)
IsSlugChar(c) == (\E k \in 1..26 : c = LowerChars[k]) \/ IsDigit(c)

\* .replace(/\u0131/g, 'i')
RECURSIVE FoldDotlessI(_)
FoldDotlessI(s) ==
    IF s = <<>> THEN <<>>
    ELSE <<IF Head(s) = "dotless_i" THEN "i" ELSE Head(s)>> \o FoldDotlessI(Tail(s))

\* .normalize('NFKD')
RECURSIVE NFKD(_)
NFKD(s) ==
    IF s = <<>> THEN <<>>
    ELSE (IF Head(s) = "e_acute" THEN <<"e", "combining_acute">> ELSE <<Head(s)>>)
         \o NFKD(Tail(s))

\* .replace(/[\u0300-\u036f]/g, '')
RECURSIVE StripCombining(_)
StripCombining(s) ==
    IF s = <<>> THEN <<>>
    ELSE (IF Head(s) = "combining_acute" THEN <<>> ELSE <<Head(s)>>)
         \o StripCombining(Tail(s))

\* .replace(/[^a-z0-9]+/g, '-')
RECURSIVE HyphenateRuns(_, _)
HyphenateRuns(s, inRun) ==
    IF s = <<>> THEN <<>>
    ELSE IF IsSlugChar(Head(s)) THEN <<Head(s)>> \o HyphenateRuns(Tail(s), FALSE)
    ELSE IF inRun THEN HyphenateRuns(Tail(s), TRUE)
    ELSE <<"-">> \o HyphenateRuns(Tail(s), TRUE)

\* .replace(/^-+|-+$/g, '')
RECURSIVE TrimHyphens(_)
TrimHyphens(s) ==
    IF s # <<>> /\ Head(s) = "-" THEN TrimHyphens(Tail(s))
    ELSE IF s # <<>> /\ s[Len(s)] = "-" THEN TrimHyphens(SubSeq(s, 1, Len(s) - 1))
    ELSE s

slugifyHeading(inputText) ==
    TrimHyphens(HyphenateRuns(
        StripCombining(NFKD(FoldDotlessI(toLowerCase(trim(inputText))))), FALSE))

\* String(n) for n >= 0
RECURSIVE ToDecimal(_)
ToDecimal(n) ==
    IF n < 10 THEN <<Digits[n + 1]>> ELSE ToDecimal(n \div 10) \o <<Digits[(n % 10) + 1]>>

SectionToken == <<"s","e","c","t","i","o","n">>

\* `${headingIdPrefix}${slugifyHeading(text) || 'section'}`
HeadingBase(prefix, text) ==
    prefix \o (IF slugifyHeading(text) # <<>> THEN slugifyHeading(text) ELSE SectionToken)

\* (counts.get(base) || 0) + 1
NextCount(counts, base) == (IF base \in DOMAIN counts THEN counts[base] ELSE 0) + 1

\* counts.set(base, count)
MapSet(counts, base, count) ==
    [b \in DOMAIN counts \cup {base} |-> IF b = base THEN count ELSE counts[b]]

\* an id that carries its count also for the first heading
HeadingIdAlwaysSuffixed(base, count) == base \o <<"-">> \o ToDecimal(count)

\* count === 1 ? base : `${base}-${count}`
HeadingId(base, count) == IF count = 1 THEN base ELSE base \o <<"-">> \o ToDecimal(count)

(***************************************************************************)
(* Values of the variables a specification does not use.                   *)
(***************************************************************************)
\* the null of a CodeAnnotation | null state, and the snippet of no viewer
NoAnnotation == [id |-> "none", line_number |-> 0]
NoSnippet == [id |-> "none", code |-> <<>>, code_path |-> <<>>]
NoEvent == [op |-> "none", lineIndex |-> 0, id |-> "none",
            hovered |-> NoAnnotation, selected |-> NoAnnotation]

\* new Map<string, number>()
EmptyCounts == [b \in {} |-> 0]

NormIdle == nIn = <<>> /\ nOut = <<>>

\* the table of contents before extractMarkdownHeadings has run
NoToc == [done |-> FALSE, items |-> <<>>]

\* useState<ProjectWithDetails | null>(null)
NullProject == <<>>

\* no call of mergeProjects yet
NoMerge == [done |-> FALSE, list |-> <<>>]

TocIdle == toc = NoToc

\* no `codefolio:overlay` event dispatched yet
NoOverlayEvent == [source |-> "none", open |-> FALSE, otherWasOpen |-> FALSE]

RouteIdle ==
    /\ slug = "" /\ project = NullProject /\ loading = TRUE /\ loads = <<>>
    /\ mobileMenuOpen = FALSE /\ mobileTocOpen = FALSE
    /\ overlayEvent = NoOverlayEvent

LibIdle == fileList = <<>> /\ draftList = <<>> /\ merged = NoMerge

PageIdle == TocIdle /\ RouteIdle /\ LibIdle

RichIdle ==
    /\ input = <<>> /\ lines = <<>> /\ i = 0 /\ blocks = <<>>
    /\ pc = "idle" /\ iter = 0 /\ headingCounts = EmptyCounts /\ rendered = <<>>
    /\ snippetRenderer = "renderSnippet"

ViewerIdle ==
    /\ snippet = NoSnippet /\ annotations = <<>> /\ mounted = FALSE
    /\ hoveredAnnotation = NoAnnotation /\ selectedAnnotation = NoAnnotation
    /\ loadedCode = Null /\ effects = <<>> /\ event = NoEvent

(***************************************************************************)
(* SpecNorm: normalizeMarkdownText applied once and then again to its own  *)
(* result, for every text of at most MaxNormLen characters.                *)
(***************************************************************************)
MaxNormLen == 4
MaxPasses == 2

NormAlphabet == {BS, "r", "n", CR, LF, "a"}

RECURSIVE StringsUpTo(_, _)
StringsUpTo(alphabet, n) ==
    IF n = 0 THEN {<<>>}
    ELSE LET shorter == StringsUpTo(alphabet, n - 1)
         IN  shorter \cup {Append(s, c) : s \in shorter, c \in alphabet}

InitNorm ==
    /\ nIn \in StringsUpTo(NormAlphabet, MaxNormLen)
    /\ nOut = <<>>
    /\ RichIdle /\ ViewerIdle /\ PageIdle

\* one more call, on the input first and on the previous result afterwards
Normalize ==
    /\ Len(nOut) < MaxPasses
    /\ nOut' = Append(nOut, normalizeMarkdownText(IF nOut = <<>> THEN nIn ELSE nOut[Len(nOut)]))
    /\ UNCHANGED <<nIn, richVars, viewerVars>>

NextNorm == Normalize /\ UNCHANGED pageVars

SpecNorm == InitNorm /\ [][NextNorm]_vars

HasCR(s) == \E k \in 1..Len(s) : s[k] = CR
HasLiteralEscape(s) == \E k \in 1..(Len(s) - 1) : s[k] = BS /\ s[k + 1] \in {"n", "r"}

\* C9: normalizeMarkdownText is idempotent (a second call on the result of
\* the first changes nothing), and a text with no carriage return and no
\* literal backslash escape (\n, \r) is returned unchanged.
C9_NormalizeIdempotent ==
    /\ \A k \in 2..Len(nOut) : nOut[k] = nOut[1]
    /\ (Len(nOut) >= 1 /\ ~HasCR(nIn) /\ ~HasLiteralEscape(nIn)) => nOut[1] = nIn

\* C9 witness: a text holding both a literal escape and a carriage return
\* has been normalised twice, and the first call changed it.
C9_Witness ==
    /\ Len(nOut) = 2 /\ HasCR(nIn) /\ HasLiteralEscape(nIn)
    /\ nOut[1] # nIn


(***************************************************************************)
(* One call of RichText on `input`: parseBlocks (normalise, split, the     *)
(* main loop, return), then the blocks rendered in order.  `iter` counts   *)
(* the iterations of the main loop.  RichText returns null at once for an  *)
(* empty text and for an empty block list; both render nothing.            *)
(***************************************************************************)
MaxLines == 3
\* iterations of the main loop the model follows; an iteration that
\* advances i leaves at most Len(lines) of them
MaxIter == MaxLines + 3

normalizeInputText(text) == normalizeMarkdownText(text)

\* all sequences of at most n elements of S
RECURSIVE SeqsUpTo(_, _)
SeqsUpTo(S, n) ==
    IF n = 0 THEN {<<>>}
    ELSE LET shorter == SeqsUpTo(S, n - 1)
         IN  shorter \cup {Append(q, x) : q \in shorter, x \in S}

\* the texts made of at most MaxLines lines of `pool`
TextsOf(pool) == {Join(q, LF) : q \in SeqsUpTo(pool, MaxLines)}

InitRich(pool) ==
    /\ input \in TextsOf(pool)
    /\ lines = <<>> /\ i = 0 /\ blocks = <<>>
    /\ pc = "start" /\ iter = 0 /\ headingCounts = EmptyCounts /\ rendered = <<>>
    /\ snippetRenderer = "renderSnippet"
    /\ NormIdle /\ ViewerIdle /\ PageIdle

\* const lines = normalizeInputText(input).split('\n'); blocks = []; i = 0
ParseStart ==
    /\ pc = "start"
    /\ lines' = Split(normalizeInputText(input), LF)
    /\ i' = 0
    /\ blocks' = <<>>
    /\ pc' = "loop"
    /\ UNCHANGED <<input, iter, headingCounts, rendered, snippetRenderer, normVars, viewerVars>>

\* one iteration of while (i < lines.length)
ParseStep ==
    /\ pc = "loop"
    /\ i < Len(lines)
    /\ iter < MaxIter
    /\ LET r == LoopBody(lines, i)
       IN  /\ i' = r.i
           /\ blocks' = blocks \o r.pushed
    /\ iter' = iter + 1
    /\ UNCHANGED <<input, lines, pc, headingCounts, rendered, snippetRenderer, normVars, viewerVars>>

\* the loop condition fails: return blocks
ParseReturn ==
    /\ pc = "loop"
    /\ i >= Len(lines)
    /\ pc' = "done"
    /\ UNCHANGED <<input, lines, i, blocks, iter, headingCounts, rendered,
                   snippetRenderer, normVars, viewerVars>>

(***************************************************************************)
(* renderInline                                                            *)
(***************************************************************************)
Https == <<"h", "t", "t", "p", "s", ":", "/", "/">>
HttpColon == <<"h", "t", "t", "p", ":", "/", "/">>
MailtoColon == <<"m", "a", "i", "l", "t", "o", ":">>

\* an isSafeUrl without the allow-list
isSafeUrlAny(url) == trim(url) # <<>>

isSafeUrl(url) ==
    LET trimmed == trim(url)
    IN  IF trimmed = <<>> THEN FALSE
        ELSE IF startsWith(trimmed, <<"/">>) THEN TRUE
        ELSE IF startsWith(trimmed, Https) THEN TRUE
        ELSE IF startsWith(trimmed, HttpColon) THEN TRUE
        ELSE IF startsWith(trimmed, MailtoColon) THEN TRUE
        ELSE FALSE

\* the first position from `from` on that holds character c, or 0
FirstCharFrom(text, c, from) ==
    LET hits == {k \in from..Len(text) : text[k] = c}
    IN  IF hits = {} THEN 0 ELSE CHOOSE k \in hits : \A n \in hits : k <= n

\* /\[([^\]]+)\]\(([^)]+)\)/ tried at position p (1-based): the label runs to
\* the first `]`, the URL to the first `)`, both at least one character
InlineMatchAt(text, p) ==
    IF p > Len(text) \/ text[p] # "[" THEN NoMatch
    ELSE LET q == FirstCharFrom(text, "]", p + 1)
         IN  IF q = 0 \/ q = p + 1 \/ q + 1 > Len(text) \/ text[q + 1] # "(" THEN NoMatch
             ELSE LET r == FirstCharFrom(text, ")", q + 2)
                  IN  IF r = 0 \/ r = q + 2 THEN NoMatch
                      ELSE [ok |-> TRUE, index |-> p - 1, end |-> r,
                            full |-> SubSeq(text, p, r),
                            label |-> SubSeq(text, p + 1, q - 1),
                            hrefRaw |-> SubSeq(text, q + 2, r - 1)]

\* re.exec(text) with re.lastIndex = lastIndex: the leftmost match
InlineExec(text, lastIndex) ==
    LET hits == {p \in (lastIndex + 1)..Len(text) : InlineMatchAt(text, p).ok}
    IN  IF hits = {} THEN NoMatch
        ELSE InlineMatchAt(text, CHOOSE p \in hits : \A n \in hits : p <= n)

\* the members of parts: a string, or an <a> element with its key
TextPart(text) == [kind |-> "text", text |-> text, href |-> <<>>, index |-> 0, full |-> <<>>]
LinkPart(m) == [kind |-> "a", text |-> m.label, href |-> trim(m.hrefRaw),
                index |-> m.index, full |-> m.full]

RECURSIVE renderInlineFrom(_, _)
\* the while loop of renderInline from lastIndex on, and the tail push
renderInlineFrom(text, lastIndex) ==
    LET match == InlineExec(text, lastIndex)
    IN  IF ~match.ok
        THEN IF lastIndex < Len(text) THEN <<TextPart(SubSeq(text, lastIndex + 1, Len(text)))>>
             ELSE <<>>
        ELSE (IF match.index > lastIndex
              THEN <<TextPart(SubSeq(text, lastIndex + 1, match.index))>> ELSE <<>>)
             \o (IF isSafeUrl(trim(match.hrefRaw)) THEN <<LinkPart(match)>>
                 ELSE <<TextPart(match.full)>>)
             \o renderInlineFrom(text, match.end)

renderInline(text) == renderInlineFrom(text, 0)

\* the ids of snippetById, the registry renderSnippet looks up
SnippetIds == {<<"s">>}

\* node = snippetRenderer ? snippetRenderer(b.id, b.caption) : null, and the
\* `Unknown snippet: {b.id}` placeholder if (!node)
SnippetNode(id) ==
    [kind |-> IF snippetRenderer = "absent" \/ id \notin SnippetIds THEN "unknownSnippet" ELSE "snippet",
     text |-> id, href |-> <<>>, index |-> 0, full |-> <<>>]

\* what a rendered block holds: the parts of a paragraph, the parts of each
\* item of a list
ChildrenOf(b) ==
    IF b.type = "paragraph" THEN <<renderInline(b.text)>>
    ELSE IF b.type = "list" THEN [k \in 1..Len(b.items) |-> renderInline(b.items[k])]
    ELSE IF b.type = "snippet" THEN <<<<SnippetNode(b.id)>>>>
    ELSE <<>>

\* the headingIdPrefix prop of this call
headingIdPrefix == <<"o", "-", "-">>

\* blocks.map((b, idx) => ...): the next block is rendered; a heading gets
\* its id from the per-call counts
RenderBlock ==
    /\ pc = "done"
    /\ Len(rendered) < Len(blocks)
    /\ LET b == blocks[Len(rendered) + 1]
       IN  IF b.type = "heading"
           THEN LET base == HeadingBase(headingIdPrefix, b.text)
                    count == NextCount(headingCounts, base)
                IN  /\ headingCounts' = MapSet(headingCounts, base, count)
                    /\ rendered' = Append(rendered,
                                          [node |-> "heading", id |-> HeadingId(base, count),
                                           children |-> <<>>])
           ELSE /\ rendered' = Append(rendered, [node |-> b.type, id |-> <<>>,
                                                 children |-> ChildrenOf(b)])
                /\ UNCHANGED headingCounts
    /\ UNCHANGED <<input, lines, i, blocks, pc, iter, snippetRenderer, normVars, viewerVars>>

RichStep == ParseStart \/ ParseStep \/ ParseReturn \/ RenderBlock

NextRich == RichStep /\ UNCHANGED pageVars

(***************************************************************************)
(* Input lines.                                                            *)
(***************************************************************************)
\* the empty line
L_Blank == <<>>
\* `a`
L_Text == <<"a">>
\* `## T`
L_H2 == <<"#", "#", " ", "T">>
\* `## ` (the marker and one space)
L_H2Only == <<"#", "#", " ">>
\* `###` and a tab
L_H3Only == <<"#", "#", "#", TAB>>
\* `##! ` (the hidden marker and one space)
L_HiddenOnly == <<"#", "#", "!", " ">>
\* `- ` (the list marker and one space)
L_DashOnly == <<"-", " ">>
\* `- x`
L_Item == <<"-", " ", "x">>
\* `![a](x)`
L_ImageA == <<"!", "[", "a", "]", "(", "x", ")">>
\* `@youtube(https://youtu.be/v)`
L_YtShort ==
    <<"@", "y", "o", "u", "t", "u", "b", "e", "(", "h", "t", "t", "p", "s",
      ":", "/", "/", "y", "o", "u", "t", "u", ".", "b", "e", "/", "v", ")">>
\* `@youtube(`
L_YtMalformed == <<"@", "y", "o", "u", "t", "u", "b", "e", "(">>
\* `@snippet(s)`
L_Snippet == <<"@", "s", "n", "i", "p", "p", "e", "t", "(", "s", ")">>
\* `@snippet()`
L_SnippetMalformed == <<"@", "s", "n", "i", "p", "p", "e", "t", "(", ")">>
\* one space
L_Space == <<" ">>
\* ` b` (leading space)
L_TextLead == <<" ", "b">>
\* `c ` (trailing space)
L_TextTrail == <<"c", " ">>
\* `d\ne` with a literal backslash and n: two lines once normalised
L_Escaped == <<"d", "\\", "n", "e">>
\* `![b](y)`
L_ImageB == <<"!", "[", "b", "]", "(", "y", ")">>
\* ` ![ c ]( z ) ` (spaces around the line, the alt and the src)
L_ImagePadded ==
    <<" ", "!", "[", " ", "c", " ", "]", "(", " ", "z", " ", ")", " ">>
\* `![a]()` (no src: not an image line)
L_ImageNoSrc == <<"!", "[", "a", "]", "(", ")">>
\* `## T 2`
L_H2Num == <<"#", "#", " ", "T", " ", "2">>
\* `### T`
L_H3 == <<"#", "#", "#", " ", "T">>
\* `##! H`
L_HiddenSpaced == <<"#", "#", "!", " ", "H">>
\* `##!H`
L_HiddenNoSpace == <<"#", "#", "!", "H">>
\* `###! H ` (with a trailing space)
L_Hidden3 == <<"#", "#", "#", "!", " ", "H", " ">>
\* `###!H`
L_Hidden3NoSpace == <<"#", "#", "#", "!", "H">>
\* `## ?!` (a title whose slug is empty)
L_H2Symbols == <<"#", "#", " ", "?", "!">>
\* `## ` followed by dotless i and e acute
L_H2Accent == <<"#", "#", " ", "dotless_i", "e_acute">>

\* the three URL forms of a video id, and the directive lines
ShortLink(id) == Https \o YoutuBe \o <<"/">> \o id
WatchPage(id) == Https \o Www \o YoutubeCom \o SlashWatch \o <<"?", "v", "=">> \o id
EmbedPath(id) == Https \o YoutubeCom \o SlashEmbedSlash \o id
YoutubeLine(url) == AtYoutube \o url \o <<")">>
SnippetLine(inside) == AtSnippet \o inside \o <<")">>

VideoIds == {<<"v">>, <<"w", "1">>}

\* `not a url`
U_NotAUrl == <<"n", "o", "t", " ", "a", " ", "u", "r", "l">>
\* `s`
S_IdOnly == <<"s">>
\* `s, "c d"`
S_DoubleQuoted == <<"s", ",", " ", "\"", "c", " ", "d", "\"">>
\* `s,'c'`
S_SingleQuoted == <<"s", ",", "'", "c", "'">>
\* `s, "c'`
S_Mismatched == <<"s", ",", " ", "\"", "c", "'">>
\* `s,`
S_EmptyCaption == <<"s", ",">>
\* ` t , u,v ` (spaces around the id, a comma in the caption)
S_TwoCommas == <<" ", "t", " ", ",", " ", "u", ",", "v", " ">>
\* `s,"` (the caption is one quote character)
S_OneQuote == <<"s", ",", "\"">>

(***************************************************************************)
(* SpecParse: texts of at most MaxLines lines, each of any kind of line    *)
(* the parser distinguishes, well-formed or not.                           *)
(***************************************************************************)
PoolParse ==
    {L_Blank, L_Text, L_H2, L_H2Only, L_H3Only, L_HiddenOnly, L_DashOnly, L_Item,
     L_ImageA, L_YtShort, L_YtMalformed, L_Snippet, L_SnippetMalformed}

InitParse == InitRich(PoolParse)

SpecParse == InitParse /\ [][NextRich]_vars

\* C2: parseBlocks terminates on every text: each iteration of the main
\* loop advances the line index i (so the loop ends after at most
\* lines.length iterations and the block list is returned).
C2_IndexAdvances == [][(pc = "loop" /\ iter' # iter) => i' > i]_vars


(***************************************************************************)
(* What the claims say about a parse, in terms of the lines of the text.   *)
(***************************************************************************)
IsBlankLine(l) == trim(l) = <<>>

\* a plain text line: not blank, and it does not begin like a directive
IsPlainLine(l) == ~IsBlankLine(l) /\ Head(trim(l)) \notin {"#", "-", "!", "@"}

OnlyPlainText == \A k \in 1..Len(lines) : IsBlankLine(lines[k]) \/ IsPlainLine(lines[k])

\* the k-th smallest element (k >= 1) of a finite set of numbers
KthOf(S, k) == CHOOSE x \in S : Cardinality({y \in S : y < x}) = k - 1

\* first lines of the maximal runs of consecutive non-blank lines
RunStarts ==
    {a \in 1..Len(lines) :
        ~IsBlankLine(lines[a]) /\ (a = 1 \/ IsBlankLine(lines[a - 1]))}

\* last line of the run of non-blank lines that begins at line a
RunEnd(a) ==
    CHOOSE b \in a..Len(lines) :
        /\ \A k \in a..b : ~IsBlankLine(lines[k])
        /\ (b = Len(lines) \/ IsBlankLine(lines[b + 1]))

TrimmedInput == trim(normalizeInputText(input))

(***************************************************************************)
(* SpecPlain: texts of plain text lines and blank lines only.              *)
(***************************************************************************)
PoolPlain == {L_Blank, L_Space, L_Text, L_TextLead, L_TextTrail, L_Escaped}

InitPlain == InitRich(PoolPlain)

SpecPlain == InitPlain /\ [][NextRich]_vars

\* C4 as stated: a text of plain text lines and blank lines only parses to
\* a single paragraph holding the trimmed text, or to no block when the
\* text is empty or whitespace-only.
C4_SingleParagraph ==
    (pc = "done" /\ OnlyPlainText) =>
        blocks = IF TrimmedInput = <<>> THEN <<>> ELSE <<ParagraphBlock(TrimmedInput)>>

\* C4 as amended: a text of plain text lines and blank lines only parses to
\* one paragraph per maximal run of consecutive non-blank lines, in order,
\* each holding the lines of its run joined by line feeds and trimmed; with
\* at most one run that is the single paragraph of the trimmed text, or no
\* block at all for an empty or whitespace-only text.
C4_ParagraphPerRun ==
    (pc = "done" /\ OnlyPlainText) =>
        /\ Len(blocks) = Cardinality(RunStarts)
        /\ \A k \in 1..Len(blocks) :
               LET a == KthOf(RunStarts, k)
               IN  blocks[k] = ParagraphBlock(trim(Join(SubSeq(lines, a, RunEnd(a)), LF)))
        /\ Cardinality(RunStarts) <= 1 =>
               blocks = IF TrimmedInput = <<>> THEN <<>>
                        ELSE <<ParagraphBlock(TrimmedInput)>>

\* C4 witness: a parse has returned for text lines around a blank line
\* (two paragraphs), the first with surrounding spaces to trim.
C4_Witness ==
    /\ pc = "done" /\ OnlyPlainText
    /\ Len(lines) = 3 /\ IsBlankLine(lines[2])
    /\ lines[1] = L_TextLead /\ Len(blocks) = 2


(***************************************************************************)
(* SpecImage: image lines among blank lines and lines of other kinds.      *)
(***************************************************************************)
PoolImage ==
    {L_Blank, L_Space, L_ImageA, L_ImageB, L_ImagePadded, L_ImageNoSrc, L_Text,
     L_H2, L_Item}

InitImage == InitRich(PoolImage)

SpecImage == InitImage /\ [][NextRich]_vars

\* an image-only line: exactly ![alt](src) once trimmed, src not empty
IsImageLine(l) ==
    LET t == trim(l)
    IN  \E a \in 3..Len(t) : \E c \in (a + 3)..Len(t) :
            /\ t[1] = "!" /\ t[2] = "["
            /\ t[a] = "]" /\ \A k \in 3..(a - 1) : t[k] # "]"
            /\ t[a + 1] = "("
            /\ t[c] = ")" /\ \A k \in (a + 2)..(c - 1) : t[k] # ")"
            /\ c = Len(t)

\* the image {alt, src} of an image-only line
ImageOfLine(l) ==
    LET t == trim(l)
        a == CHOOSE k \in 3..Len(t) : t[k] = "]" /\ \A n \in 3..(k - 1) : t[n] # "]"
    IN  [alt |-> trim(SubSeq(t, 3, a - 1)), src |-> trim(SubSeq(t, a + 2, Len(t) - 1))]

ImageLines == {k \in 1..Len(lines) : IsImageLine(lines[k])}

\* lines a <= b belong to one run: only image lines and blank lines between
SameImageRun(a, b) ==
    \A k \in a..b : IsImageLine(lines[k]) \/ IsBlankLine(lines[k])

ImageRunStarts == {a \in ImageLines : \A b \in ImageLines : b < a => ~SameImageRun(b, a)}

ImageRunMembers(a) == {b \in ImageLines : a <= b /\ SameImageRun(a, b)}

ImagesOfRun(a) ==
    [n \in 1..Cardinality(ImageRunMembers(a)) |->
        ImageOfLine(lines[KthOf(ImageRunMembers(a), n)])]

ImageBlocks == SelectSeq(blocks, LAMBDA b : b.type \in {"image", "carousel"})

\* C5: when parseBlocks returns, each maximal run of image-only lines
\* (blank lines between them allowed) has given exactly one block, in
\* source order: a carousel of all its images in order when the run has two
\* or more image lines, an image block when it has one; so every carousel
\* has at least two images.
C5_ImageRuns ==
    pc = "done" =>
        /\ Len(ImageBlocks) = Cardinality(ImageRunStarts)
        /\ \A k \in 1..Len(ImageBlocks) :
               LET images == ImagesOfRun(KthOf(ImageRunStarts, k))
               IN  ImageBlocks[k] = IF Len(images) >= 2 THEN CarouselBlock(images)
                                    ELSE ImageBlock(images[1].alt, images[1].src)
        /\ \A k \in 1..Len(blocks) :
               blocks[k].type = "carousel" => Len(blocks[k].images) >= 2

\* C5 witness: a returned parse of three lines holding a carousel of two
\* images whose lines were separated by a blank line.
C5_Witness ==
    /\ pc = "done" /\ Len(lines) = 3
    /\ IsImageLine(lines[1]) /\ IsBlankLine(lines[2]) /\ IsImageLine(lines[3])
    /\ Len(blocks) = 1 /\ blocks[1].type = "carousel" /\ Len(blocks[1].images) = 2


(***************************************************************************)
(* SpecHeading: heading lines (plain, hidden with and without whitespace   *)
(* after the `!`, repeated titles, a title ending in a number) among text. *)
(***************************************************************************)
PoolHeading ==
    {L_Blank, L_Text, L_H2, L_H2Num, L_H3, L_HiddenSpaced, L_HiddenNoSpace,
     L_Hidden3, L_Hidden3NoSpace, L_H2Symbols, L_H2Accent}

InitHeading == InitRich(PoolHeading)

SpecHeading == InitHeading /\ [][NextRich]_vars

\* l, right-trimmed, is `n` hashes, a `!` if `bang`, `w` >= 1 whitespace
\* characters and then a text that begins with a visible character
HeadingShape(l, n, bang, w) ==
    LET t == trimEnd(l)
        p == n + (IF bang THEN 1 ELSE 0)
    IN  /\ Len(t) > p + w
        /\ \A k \in 1..n : t[k] = "#"
        /\ bang => t[n + 1] = "!"
        /\ \A k \in (p + 1)..(p + w) : t[k] \in Ws
        /\ t[p + w + 1] \notin Ws

HeadingShapes(l) ==
    {q \in {2, 3} \X BOOLEAN \X (1..Len(l)) : HeadingShape(l, q[1], q[2], q[3])}

IsHeadingLine(l) == HeadingShapes(l) # {}

\* the heading block of a heading line
HeadingOfLine(l) ==
    LET q == CHOOSE x \in HeadingShapes(l) : TRUE
        p == q[1] + (IF q[2] THEN 1 ELSE 0) + q[3]
    IN  HeadingBlock(q[1], SubSeq(trimEnd(l), p + 1, Len(trimEnd(l))), q[2])

\* l is `n` hashes, a `!` and at once a text (no whitespace after the `!`)
HiddenNoSpaceShape(l, n) ==
    /\ Len(l) >= n + 2
    /\ \A k \in 1..n : l[k] = "#"
    /\ l[n + 1] = "!"
    /\ l[n + 2] \notin Ws \cup {"#", "!"}

HeadingLines == {k \in 1..Len(lines) : IsHeadingLine(lines[k])}

HeadingBlocks == SelectSeq(blocks, LAMBDA b : b.type = "heading")

RenderedHeadings == {k \in 1..Len(rendered) : rendered[k].node = "heading"}

\* C3: no two headings rendered by one RichText call get the same id.
C3_UniqueHeadingIds ==
    \A a \in RenderedHeadings : \A b \in RenderedHeadings :
        a # b => rendered[a].id # rendered[b].id


(***************************************************************************)
(* SpecYoutube: @youtube(...) lines of the three URL forms, of an          *)
(* unrecognised URL and malformed, among text and blank lines.             *)
(***************************************************************************)
PoolYoutube ==
    {L_Blank, L_Text, L_YtMalformed, YoutubeLine(U_NotAUrl)}
    \cup {YoutubeLine(ShortLink(id)) : id \in VideoIds}
    \cup {YoutubeLine(WatchPage(id)) : id \in VideoIds}
    \cup {YoutubeLine(EmbedPath(id)) : id \in VideoIds}

InitYoutube == InitRich(PoolYoutube)

SpecYoutube == InitYoutube /\ [][NextRich]_vars

\* l, trimmed, is `prefix`, one or more characters other than `)`, and `)`
IsDirectiveLine(l, prefix) ==
    LET t == trim(l)
    IN  /\ Len(t) >= Len(prefix) + 2
        /\ toLowerCase(SubSeq(t, 1, Len(prefix))) = prefix
        /\ t[Len(t)] = ")"
        /\ \A k \in (Len(prefix) + 1)..(Len(t) - 1) : t[k] # ")"

\* what stands between the parentheses of a directive line, trimmed
InsideOf(l, prefix) == trim(SubSeq(trim(l), Len(prefix) + 1, Len(trim(l)) - 1))

\* the video ids of which `url` is the short link, watch page or embed path
IdsOfUrl(url) == {id \in VideoIds : url \in {ShortLink(id), WatchPage(id), EmbedPath(id)}}

BlockSet == {blocks[b] : b \in 1..Len(blocks)}

\* C7: when parseBlocks returns, every @youtube(url) line whose URL is the
\* short link, the watch page or the embed path of a video id has given a
\* video block with the one embed URL of that id, and every other
\* @youtube(...) line a paragraph block whose text is the line itself; no
\* directive line is left without a block.
C7_YoutubeLines ==
    pc = "done" =>
        \A k \in 1..Len(lines) :
            IsDirectiveLine(lines[k], AtYoutube) =>
                LET url == InsideOf(lines[k], AtYoutube)
                IN  /\ \A id \in IdsOfUrl(url) : YoutubeBlock(EmbedPrefix \o id) \in BlockSet
                    /\ IdsOfUrl(url) = {} => ParagraphBlock(trimEnd(lines[k])) \in BlockSet

(***************************************************************************)
(* SpecSnippet: @snippet(...) lines with and without captions, quoted and  *)
(* not, among text and blank lines.                                        *)
(***************************************************************************)
PoolSnippet ==
    {L_Blank, L_Text, SnippetLine(S_IdOnly), SnippetLine(S_DoubleQuoted),
     SnippetLine(S_SingleQuoted), SnippetLine(S_Mismatched),
     SnippetLine(S_EmptyCaption), SnippetLine(S_TwoCommas), SnippetLine(S_OneQuote)}

InitSnippet == InitRich(PoolSnippet)

SpecSnippet == InitSnippet /\ [][NextRich]_vars

\* text without one layer of surrounding straight quotes, when its first
\* and last characters are the same quote
Unquoted(text) ==
    IF Len(text) >= 2 /\ text[1] = text[Len(text)] /\ text[1] \in {"\"", "'"}
    THEN SubSeq(text, 2, Len(text) - 1)
    ELSE text

\* the snippet block C8 describes for what stands between the parentheses
SnippetOfInside(inside) ==
    LET commas == {k \in 1..Len(inside) : inside[k] = ","}
        first == CHOOSE k \in commas : \A n \in commas : k <= n
        caption == IF commas = {} THEN <<>>
                   ELSE Unquoted(trim(SubSeq(inside, first + 1, Len(inside))))
    IN  SnippetBlock(IF commas = {} THEN trim(inside) ELSE trim(SubSeq(inside, 1, first - 1)),
                     IF caption = <<>> THEN Undefined ELSE caption)

\* C8: when parseBlocks returns, every @snippet(id[, caption]) line has
\* given a snippet block: the id is what precedes the first comma, trimmed;
\* the caption is the trimmed remainder without one layer of surrounding
\* quotes when its first and last characters are the same straight quote,
\* and undefined when there is no comma or the caption is empty.
C8_SnippetLines ==
    pc = "done" =>
        \A k \in 1..Len(lines) :
            IsDirectiveLine(lines[k], AtSnippet) =>
                SnippetOfInside(InsideOf(lines[k], AtSnippet)) \in BlockSet


(***************************************************************************)
(* InteractiveCodeViewer: one mounted instance.  A render with new props   *)
(* and the effect cleanups and effects it schedules are one step (the page *)
(* runs them in one task, before any fetch callback).  effects lists the   *)
(* runs of the code loading effect in order: the closure's inlineCode and  *)
(* code_path, its didCancel flag, and where load() stands.  The tooltip    *)
(* position is not modelled: no claim reads it.                            *)
(***************************************************************************)

\* the snippets the page passes: code is t(snippet.code), code_path is
\* empty when the field is absent
Snippets ==
    {[id |-> "inline", code |-> <<"x">>, code_path |-> <<>>],
     [id |-> "byPathP", code |-> <<>>, code_path |-> <<"/", "p">>],
     [id |-> "byPathQ", code |-> <<>>, code_path |-> <<"/", "q">>],
     [id |-> "bare", code |-> <<>>, code_path |-> <<>>],
     [id |-> "blankCodeP", code |-> <<" ">>, code_path |-> <<"/", "p">>],
     [id |-> "inlineAndQ", code |-> <<"y", " ">>, code_path |-> <<"/", "q">>]}

\* the annotation lists the page passes: two annotations on line 1 and one
\* on line 2; one annotation on line 2 only
AnnotationLists ==
    {<<[id |-> "a1", line_number |-> 1], [id |-> "a2", line_number |-> 1],
       [id |-> "a3", line_number |-> 2]>>,
     <<[id |-> "b1", line_number |-> 2]>>}

\* 0-based indexes of the lines the highlighter renders
MaxLineIndex == 2
LineIndexes == 0..MaxLineIndex

\* how many times the code loading effect may run
MaxRuns == 3

\* the body the server holds at a path (res.text())
FileText(path) == IF path = <<"/", "p">> THEN <<"P">> ELSE <<"Q">>

\* useMemo(() => (t(snippet.code) || '').trim())
inlineCode(s) == trim(s.code)

\* a load() that fetches whenever a code path is present
loadPathFirst(s) ==
    [inlineCode |-> inlineCode(s), code_path |-> s.code_path, didCancel |-> FALSE,
     stage |-> IF s.code_path # <<>> THEN "fetching"
               ELSE IF inlineCode(s) # <<>> THEN "set"
               ELSE "returned"]

\* load(), up to its first await
load(s) ==
    [inlineCode |-> inlineCode(s), code_path |-> s.code_path, didCancel |-> FALSE,
     stage |-> IF inlineCode(s) # <<>> THEN "set"
               ELSE IF s.code_path # <<>> THEN "fetching"
               ELSE "returned"]

\* the first render, useState(inlineCode || null), and the first effects
InitViewer ==
    /\ NormIdle /\ RichIdle /\ PageIdle
    /\ \E s \in Snippets, anns \in AnnotationLists :
        /\ snippet = s /\ annotations = anns /\ mounted = TRUE
        /\ hoveredAnnotation = NoAnnotation /\ selectedAnnotation = NoAnnotation
        /\ loadedCode = (IF inlineCode(s) # <<>> THEN inlineCode(s) ELSE Null)
        /\ effects = <<load(s)>>
        /\ event = NoEvent

\* a props change without the reset effect
SetPropsNoReset(s, anns) ==
    LET depsChanged == inlineCode(s) # inlineCode(snippet) \/ s.code_path # snippet.code_path
        last == Len(effects)
    IN  /\ mounted
        /\ <<s, anns>> # <<snippet, annotations>>
        /\ depsChanged => Len(effects) < MaxRuns
        /\ snippet' = s /\ annotations' = anns
        /\ effects' = IF depsChanged
                      THEN Append([effects EXCEPT ![last].didCancel = TRUE], load(s))
                      ELSE effects
        /\ loadedCode' = IF depsChanged /\ inlineCode(s) # <<>> THEN inlineCode(s) ELSE loadedCode
        /\ UNCHANGED <<hoveredAnnotation, selectedAnnotation, mounted, normVars, richVars>>

\* a props change whose effect cleanup does not set didCancel
SetPropsNoCancel(s, anns) ==
    LET depsChanged == inlineCode(s) # inlineCode(snippet) \/ s.code_path # snippet.code_path
    IN  /\ mounted
        /\ <<s, anns>> # <<snippet, annotations>>
        /\ depsChanged => Len(effects) < MaxRuns
        /\ snippet' = s /\ annotations' = anns
        /\ effects' = IF depsChanged THEN Append(effects, load(s)) ELSE effects
        /\ loadedCode' = IF depsChanged /\ inlineCode(s) # <<>> THEN inlineCode(s) ELSE loadedCode
        /\ hoveredAnnotation' = IF s.id # snippet.id THEN NoAnnotation ELSE hoveredAnnotation
        /\ selectedAnnotation' = IF s.id # snippet.id THEN NoAnnotation ELSE selectedAnnotation
        /\ UNCHANGED <<mounted, normVars, richVars>>

\* the parent renders the viewer with another snippet or annotation list:
\* the code loading effect is cleaned up and run again when inlineCode or
\* code_path differ, the reset effect runs when the id differs
SetProps(s, anns) ==
    LET depsChanged == inlineCode(s) # inlineCode(snippet) \/ s.code_path # snippet.code_path
        last == Len(effects)
    IN  /\ mounted
        /\ <<s, anns>> # <<snippet, annotations>>
        /\ depsChanged => Len(effects) < MaxRuns
        /\ snippet' = s /\ annotations' = anns
        /\ effects' = IF depsChanged
                      THEN Append([effects EXCEPT ![last].didCancel = TRUE], load(s))
                      ELSE effects
        /\ loadedCode' = IF depsChanged /\ inlineCode(s) # <<>> THEN inlineCode(s) ELSE loadedCode
        /\ hoveredAnnotation' = IF s.id # snippet.id THEN NoAnnotation ELSE hoveredAnnotation
        /\ selectedAnnotation' = IF s.id # snippet.id THEN NoAnnotation ELSE selectedAnnotation
        /\ UNCHANGED <<mounted, normVars, richVars>>

\* await fetch(snippet.code_path) resolves with res.ok
FetchResponds(k) ==
    /\ k \in 1..Len(effects) /\ effects[k].stage = "fetching"
    /\ effects' = [effects EXCEPT ![k].stage = "reading"]
    /\ UNCHANGED <<snippet, annotations, mounted, hoveredAnnotation, selectedAnnotation,
                   loadedCode, normVars, richVars>>

\* a failure that empties the listing
FetchFailsClears(k) ==
    /\ k \in 1..Len(effects) /\ effects[k].stage \in {"fetching", "reading"}
    /\ effects' = [effects EXCEPT ![k].stage = "failed"]
    /\ loadedCode' = Null
    /\ UNCHANGED <<snippet, annotations, mounted, hoveredAnnotation, selectedAnnotation,
                   normVars, richVars>>

\* fetch rejects, res.ok is false, or res.text() rejects: catch, console.error
FetchFails(k) ==
    /\ k \in 1..Len(effects) /\ effects[k].stage \in {"fetching", "reading"}
    /\ effects' = [effects EXCEPT ![k].stage = "failed"]
    /\ UNCHANGED <<snippet, annotations, mounted, hoveredAnnotation, selectedAnnotation,
                   loadedCode, normVars, richVars>>

\* await res.text() resolves, and the result is written whatever didCancel is
TextResolvesUnchecked(k) ==
    /\ k \in 1..Len(effects) /\ effects[k].stage = "reading"
    /\ effects' = [effects EXCEPT ![k].stage = "applied"]
    /\ loadedCode' = FileText(effects[k].code_path)
    /\ UNCHANGED <<snippet, annotations, mounted, hoveredAnnotation, selectedAnnotation,
                   normVars, richVars>>

\* await res.text() resolves: if (!didCancel) setLoadedCode(text)
TextResolves(k) ==
    /\ k \in 1..Len(effects) /\ effects[k].stage = "reading"
    /\ effects' = [effects EXCEPT ![k].stage = IF effects[k].didCancel THEN "discarded" ELSE "applied"]
    /\ loadedCode' = IF effects[k].didCancel THEN loadedCode ELSE FileText(effects[k].code_path)
    /\ UNCHANGED <<snippet, annotations, mounted, hoveredAnnotation, selectedAnnotation,
                   normVars, richVars>>

\* annotations.filter((a) => a.line_number === lineIndex + 1)
lineAnnotations(lineIndex) == SelectSeq(annotations, LAMBDA a : a.line_number = lineIndex + 1)

\* a hover that surfaces the last annotation of the line
handleLineHoverLast(lineIndex) ==
    /\ mounted
    /\ hoveredAnnotation' = IF Len(lineAnnotations(lineIndex)) > 0
                            THEN lineAnnotations(lineIndex)[Len(lineAnnotations(lineIndex))]
                            ELSE hoveredAnnotation
    /\ UNCHANGED <<snippet, annotations, mounted, selectedAnnotation, loadedCode, effects,
                   normVars, richVars>>

handleLineHover(lineIndex) ==
    /\ mounted
    /\ hoveredAnnotation' = IF Len(lineAnnotations(lineIndex)) > 0
                            THEN lineAnnotations(lineIndex)[1]
                            ELSE hoveredAnnotation
    /\ UNCHANGED <<snippet, annotations, mounted, selectedAnnotation, loadedCode, effects,
                   normVars, richVars>>

\* a pointer leave that also closes the detail view
handleLineLeaveClosesDetail ==
    /\ mounted
    /\ hoveredAnnotation' = NoAnnotation
    /\ selectedAnnotation' = NoAnnotation
    /\ UNCHANGED <<snippet, annotations, mounted, loadedCode, effects, normVars, richVars>>

handleLineLeave ==
    /\ mounted
    /\ hoveredAnnotation' = NoAnnotation
    /\ UNCHANGED <<snippet, annotations, mounted, selectedAnnotation, loadedCode, effects,
                   normVars, richVars>>

\* a click that closes an open detail view before it selects
handleLineClickClosesFirst(lineIndex) ==
    /\ mounted
    /\ selectedAnnotation' = IF selectedAnnotation # NoAnnotation THEN NoAnnotation
                             ELSE IF Len(lineAnnotations(lineIndex)) > 0
                             THEN lineAnnotations(lineIndex)[1]
                             ELSE selectedAnnotation
    /\ UNCHANGED <<snippet, annotations, mounted, hoveredAnnotation, loadedCode, effects,
                   normVars, richVars>>

handleLineClick(lineIndex) ==
    /\ mounted
    /\ selectedAnnotation' = IF Len(lineAnnotations(lineIndex)) > 0
                             THEN lineAnnotations(lineIndex)[1]
                             ELSE selectedAnnotation
    /\ UNCHANGED <<snippet, annotations, mounted, hoveredAnnotation, loadedCode, effects,
                   normVars, richVars>>

\* the close button of the detail view, rendered while an annotation is selected
CloseDetail ==
    /\ mounted /\ selectedAnnotation # NoAnnotation
    /\ selectedAnnotation' = NoAnnotation
    /\ UNCHANGED <<snippet, annotations, mounted, hoveredAnnotation, loadedCode, effects,
                   normVars, richVars>>

\* the page removes the viewer: the cleanup of the last effect run sets didCancel
Unmount ==
    /\ mounted
    /\ mounted' = FALSE
    /\ effects' = [effects EXCEPT ![Len(effects)].didCancel = TRUE]
    /\ UNCHANGED <<snippet, annotations, hoveredAnnotation, selectedAnnotation, loadedCode,
                   normVars, richVars>>

ViewerStep ==
    \/ \E s \in Snippets, anns \in AnnotationLists : SetProps(s, anns)
    \/ \E k \in 1..MaxRuns : FetchResponds(k)
    \/ \E k \in 1..MaxRuns : FetchFails(k)
    \/ \E k \in 1..MaxRuns : TextResolves(k)
    \/ \E lineIndex \in LineIndexes : handleLineHover(lineIndex)
    \/ handleLineLeave
    \/ \E lineIndex \in LineIndexes : handleLineClick(lineIndex)
    \/ CloseDetail
    \/ Unmount

NextViewer == ViewerStep /\ UNCHANGED <<event, pageVars>>

SpecViewer == InitViewer /\ [][NextViewer]_vars

\* the viewer has moved on from effect run k: a later run exists (inlineCode
\* or code_path changed since) or the component is unmounted
MovedOn(k) == k < Len(effects) \/ ~mounted

\* C1: in every step in which the res.text() of a code fetch resolves after
\* the viewer has moved on from that fetch (the inline code or code path
\* changed, or the component unmounted), loadedCode keeps its value: the
\* result of the older fetch is discarded.
C1_StaleFetchDiscarded ==
    [][\A k \in 1..MaxRuns : (TextResolves(k) /\ MovedOn(k)) => loadedCode' = loadedCode]_vars

\* a fetch of /p resolved after the viewer had moved on to another snippet,
\* and the listing does not hold the body of /p
C1_Witness ==
    /\ mounted
    /\ \E k \in 1..Len(effects) :
        /\ k < Len(effects)
        /\ effects[k].stage = "discarded"
        /\ loadedCode # FileText(effects[k].code_path)

\* the annotation with the smallest list index whose line_number is
\* lineIndex + 1
FirstOnLine(lineIndex) ==
    annotations[CHOOSE k \in 1..Len(annotations) :
                    /\ annotations[k].line_number = lineIndex + 1
                    /\ \A n \in 1..(k - 1) : annotations[n].line_number # lineIndex + 1]

OnLine(lineIndex) == {k \in 1..Len(annotations) : annotations[k].line_number = lineIndex + 1}

\* C10: a hover of a line that one or more annotations target makes the
\* hovered annotation the first of them in list order, and a click of such a
\* line makes the selected annotation the first of them in list order.
C10_FirstAnnotationOfLine ==
    [][\A lineIndex \in LineIndexes :
         OnLine(lineIndex) # {} =>
            /\ handleLineHover(lineIndex) => hoveredAnnotation' = FirstOnLine(lineIndex)
            /\ handleLineClick(lineIndex) => selectedAnnotation' = FirstOnLine(lineIndex)]_vars

\* the line with two annotations has been hovered and clicked
C10_Witness ==
    /\ Cardinality(OnLine(0)) = 2
    /\ hoveredAnnotation = FirstOnLine(0)
    /\ selectedAnnotation = FirstOnLine(0)


(***************************************************************************)
(* SpecSelect: the hover and selection state of the viewer under pointer   *)
(* events, the close button and props changes, over snippets that need no  *)
(* fetch.  event records the last step and the state it acted on.          *)
(***************************************************************************)

\* snippets with inline code (two of them with the same trimmed code) and
\* one with neither code nor path
SelectSnippets ==
    {[id |-> "inline", code |-> <<"x">>, code_path |-> <<>>],
     [id |-> "inlineTwin", code |-> <<" ", "x">>, code_path |-> <<>>],
     [id |-> "bare", code |-> <<>>, code_path |-> <<>>]}

Log(op, lineIndex) ==
    event' = [op |-> op, lineIndex |-> lineIndex, id |-> snippet.id,
              hovered |-> hoveredAnnotation, selected |-> selectedAnnotation]

InitSelect ==
    /\ NormIdle /\ RichIdle /\ PageIdle
    /\ \E s \in SelectSnippets, anns \in AnnotationLists :
        /\ snippet = s /\ annotations = anns /\ mounted = TRUE
        /\ hoveredAnnotation = NoAnnotation /\ selectedAnnotation = NoAnnotation
        /\ loadedCode = (IF inlineCode(s) # <<>> THEN inlineCode(s) ELSE Null)
        /\ effects = <<load(s)>>
        /\ event = [NoEvent EXCEPT !.op = "mount", !.id = s.id]

SelectStep ==
    \/ \E s \in SelectSnippets, anns \in AnnotationLists : SetProps(s, anns) /\ Log("props", 0)
    \/ \E lineIndex \in LineIndexes : handleLineHover(lineIndex) /\ Log("hover", lineIndex)
    \/ handleLineLeave /\ Log("leave", 0)
    \/ \E lineIndex \in LineIndexes : handleLineClick(lineIndex) /\ Log("click", lineIndex)
    \/ CloseDetail /\ Log("close", 0)
    \/ Unmount /\ Log("unmount", 0)

NextSelect == SelectStep /\ UNCHANGED pageVars

SpecSelect == InitSelect /\ [][NextSelect]_vars

\* a tooltip rendered whenever an annotation is hovered
TooltipDisplayedWhenHovered == hoveredAnnotation # NoAnnotation

\* {hoveredAnnotation && !selectedAnnotation && (tooltip)}
TooltipDisplayed == hoveredAnnotation # NoAnnotation /\ selectedAnnotation = NoAnnotation

\* {selectedAnnotation && (detail view)}
DetailOpen == selectedAnnotation # NoAnnotation

\* C11: a click on a line with annotations while an annotation is selected
\* leaves the viewer, in that one step, with the first annotation of the
\* clicked line selected: no state without a selection lies between.
C11_ReplaceDirectly ==
    [][\A lineIndex \in LineIndexes :
         (handleLineClick(lineIndex) /\ OnLine(lineIndex) # {} /\ DetailOpen) =>
            (selectedAnnotation' = FirstOnLine(lineIndex) /\ DetailOpen')]_vars

\* the last step was a click that replaced one selected annotation by another
C11_Witness ==
    /\ event.op = "click"
    /\ event.selected # NoAnnotation
    /\ selectedAnnotation # NoAnnotation
    /\ selectedAnnotation # event.selected

\* C12: every close of the detail view leaves the viewer idle: no
\* annotation is selected, no hovered annotation remains and the tooltip
\* is not displayed, whatever pointer events came before.
C12_CloseGoesIdle ==
    [][CloseDetail =>
          /\ selectedAnnotation' = NoAnnotation
          /\ hoveredAnnotation' = NoAnnotation
          /\ ~TooltipDisplayed']_vars

\* C13: the tooltip is never displayed while the detail view is open; after
\* a click on a line with annotations the tooltip is not displayed; and a
\* pointer leave while nothing is selected leaves the viewer idle (nothing
\* hovered, nothing selected).
C13_TooltipSuppressed ==
    /\ [](~(TooltipDisplayed /\ DetailOpen))
    /\ [][/\ \A lineIndex \in LineIndexes :
               (handleLineClick(lineIndex) /\ OnLine(lineIndex) # {}) => ~TooltipDisplayed'
          /\ (handleLineLeave /\ ~DetailOpen) =>
               (hoveredAnnotation' = NoAnnotation /\ selectedAnnotation' = NoAnnotation)]_vars

\* a click on the hovered line has opened the detail view while the
\* annotation is still hovered
C13_Witness ==
    /\ event.op = "click"
    /\ event.hovered # NoAnnotation
    /\ event.selected = NoAnnotation
    /\ hoveredAnnotation # NoAnnotation
    /\ DetailOpen

\* C14: every step that changes snippet.id leaves the viewer with no
\* hovered and no selected annotation.
C14_ResetOnIdChange ==
    [][snippet'.id # snippet.id =>
          (hoveredAnnotation' = NoAnnotation /\ selectedAnnotation' = NoAnnotation)]_vars

\* the last step changed the snippet id while an annotation was hovered and
\* one was selected
C14_Witness ==
    /\ event.op = "props"
    /\ event.id # snippet.id
    /\ event.hovered # NoAnnotation
    /\ event.selected # NoAnnotation
    /\ hoveredAnnotation = NoAnnotation
    /\ selectedAnnotation = NoAnnotation

\* {loadedCode || inlineCode || ''}
DisplayedCode ==
    IF loadedCode # Null /\ loadedCode # <<>> THEN loadedCode
    ELSE inlineCode(snippet)

\* C15: while the viewer is mounted the listing shows the current snippet's
\* inline code, the body fetched from the current snippet's code path, or
\* nothing: never the code fetched for a previous snippet.
C15_ListingOfCurrentSnippet ==
    mounted =>
        \/ DisplayedCode = <<>>
        \/ DisplayedCode = inlineCode(snippet)
        \/ snippet.code_path # <<>> /\ DisplayedCode = FileText(snippet.code_path)

\* C16: while the viewer is mounted with a snippet whose trimmed inline code
\* is not empty, the listing shows that inline code; and no run of the code
\* loading effect that saw non-empty inline code has issued a fetch, with
\* or without a code path.
C16_InlineWins ==
    /\ (mounted /\ inlineCode(snippet) # <<>>) => DisplayedCode = inlineCode(snippet)
    /\ \A k \in 1..Len(effects) : effects[k].inlineCode # <<>> => effects[k].stage = "set"

\* a snippet with inline code and a code path is displayed after another
\* snippet's code was loaded by reference
C16_Witness ==
    /\ mounted
    /\ inlineCode(snippet) # <<>> /\ snippet.code_path # <<>>
    /\ DisplayedCode = inlineCode(snippet)
    /\ \E k \in 1..Len(effects) : effects[k].stage = "applied"

\* C17: a step in which a code fetch fails (the fetch rejects, the response
\* is not OK, or reading the body rejects) leaves loadedCode, the hovered
\* annotation and the selected annotation as they were, and the viewer
\* stays mounted.
C17_FailureKeepsState ==
    [][\A k \in 1..MaxRuns :
         FetchFails(k) =>
            /\ loadedCode' = loadedCode
            /\ hoveredAnnotation' = hoveredAnnotation
            /\ selectedAnnotation' = selectedAnnotation
            /\ mounted' = mounted]_vars

\* the fetch of the current snippet has failed while the listing held code
\* and an annotation was selected
C17_Witness ==
    /\ mounted
    /\ effects[Len(effects)].stage = "failed"
    /\ loadedCode # Null
    /\ selectedAnnotation # NoAnnotation


(***************************************************************************)
(* SpecInline: RichText on texts put together from link-shaped and other   *)
(* pieces; paragraphs and list items are rendered through renderInline.    *)
(***************************************************************************)
MaxPieces == 3

\* `a`
P_Word == <<"a">>
\* ` `
P_Space == <<" ">>
\* `[`
P_Open == <<"[">>
\* `)`
P_CloseParen == <<")">>
\* `[a](/b)`
P_RootLink == <<"[", "a", "]", "(", "/", "b", ")">>
\* `[c]( https://d )`
P_HttpsLink ==
    <<"[", "c", "]", "(", " ", "h", "t", "t", "p", "s", ":", "/", "/", "d",
      " ", ")">>
\* `[x[e](mailto:f)`
P_MailLink ==
    <<"[", "x", "[", "e", "]", "(", "m", "a", "i", "l", "t", "o", ":", "f",
      ")">>
\* `[g](http://h)`
P_HttpLink ==
    <<"[", "g", "]", "(", "h", "t", "t", "p", ":", "/", "/", "h", ")">>
\* `[i](j)`
P_Relative == <<"[", "i", "]", "(", "j", ")">>
\* `[k](javascript:l)`
P_Script ==
    <<"[", "k", "]", "(", "j", "a", "v", "a", "s", "c", "r", "i", "p", "t",
      ":", "l", ")">>
\* `[m](HTTP://n)`
P_UpperHttp ==
    <<"[", "m", "]", "(", "H", "T", "T", "P", ":", "/", "/", "n", ")">>
\* `[o]( )`
P_BlankUrl == <<"[", "o", "]", "(", " ", ")">>
\* `[](/p)`
P_NoLabel == <<"[", "]", "(", "/", "p", ")">>
\* `[q](r`
P_UrlOpens == <<"[", "q", "]", "(", "r">>
\* `- `
P_Dash == <<"-", " ">>

InlinePieces ==
    {P_Word, P_Space, P_Open, P_CloseParen, P_RootLink, P_HttpsLink, P_MailLink,
     P_HttpLink, P_Relative, P_Script, P_UpperHttp, P_BlankUrl, P_NoLabel,
     P_UrlOpens, P_Dash, <<LF>>}

RECURSIVE Concat(_)
Concat(q) == IF q = <<>> THEN <<>> ELSE Head(q) \o Concat(Tail(q))

InitInline ==
    /\ input \in {Concat(q) : q \in SeqsUpTo(InlinePieces, MaxPieces)}
    /\ lines = <<>> /\ i = 0 /\ blocks = <<>>
    /\ pc = "start" /\ iter = 0 /\ headingCounts = EmptyCounts /\ rendered = <<>>
    /\ snippetRenderer = "renderSnippet"
    /\ NormIdle /\ ViewerIdle /\ PageIdle

SpecInline == InitInline /\ [][NextRich]_vars

\* text[p..r] is an occurrence `[label](url)`: `[`, a label of one or more
\* characters other than `]`, `](`, a URL of one or more characters other
\* than `)`, and `)`; q is the place of the `]`
IsOccurrence(text, p, q, r) ==
    /\ 1 <= p /\ p + 1 < q /\ q + 2 < r /\ r <= Len(text)
    /\ text[p] = "[" /\ text[q] = "]" /\ text[q + 1] = "(" /\ text[r] = ")"
    /\ \A k \in (p + 1)..(q - 1) : text[k] # "]"
    /\ \A k \in (q + 2)..(r - 1) : text[k] # ")"

\* the allow-list: starts with `/`, `http://`, `https://` or `mailto:`
OnAllowList(url) ==
    \E prefix \in {<<"/">>, HttpColon, Https, MailtoColon} :
        Len(url) >= Len(prefix) /\ SubSeq(url, 1, Len(prefix)) = prefix

\* the text a part was made from
SourceOf(part) == IF part.kind = "a" THEN part.full ELSE part.text

\* parts is what C18 describes for text
InlineAsClaimed(text, parts) ==
    \* the parts are the text, cut into pieces, in order
    /\ Concat([k \in 1..Len(parts) |-> SourceOf(parts[k])]) = text
    /\ \A k \in 1..Len(parts) :
        LET part == parts[k]
            src == SourceOf(part)
            whole == {q \in 1..Len(src) : IsOccurrence(src, 1, q, Len(src))}
        IN  \* a link is a whole occurrence whose trimmed URL is on the allow-list
            /\ part.kind = "a" =>
                 \E q \in whole :
                    /\ part.text = SubSeq(src, 2, q - 1)
                    /\ part.href = trim(SubSeq(src, q + 2, Len(src) - 1))
                    /\ OnAllowList(part.href)
            \* a literal occurrence is one whose trimmed URL is not on the list
            /\ (part.kind = "text" /\ whole # {}) =>
                 \A q \in whole : ~OnAllowList(trim(SubSeq(src, q + 2, Len(src) - 1)))
            \* the text outside the occurrences holds no occurrence
            /\ (part.kind = "text" /\ whole = {}) =>
                 \A p \in 1..Len(src), q \in 1..Len(src), r \in 1..Len(src) :
                    ~IsOccurrence(src, p, q, r)

\* the texts given to renderInline in this render, with the parts returned
InlineCalls ==
    {<<blocks[k].text, rendered[k].children[1]>> :
        k \in {n \in 1..Len(rendered) : rendered[n].node = "paragraph"}}
    \cup UNION {{<<blocks[k].items[j], rendered[k].children[j]>> : j \in 1..Len(blocks[k].items)} :
                    k \in {n \in 1..Len(rendered) : rendered[n].node = "list"}}

\* C18: in every paragraph and list item rendered, an occurrence
\* `[label](url)` has become a link exactly when its trimmed URL starts with
\* `/`, `http://`, `https://` or `mailto:`; every other occurrence is there
\* as its literal text, and the text outside the occurrences is there
\* unchanged and in order.
C18_InlineLinks ==
    \A call \in InlineCalls : InlineAsClaimed(call[1], call[2])

\* a paragraph was rendered into text, a link, and an occurrence left literal
C18_Witness ==
    \E call \in InlineCalls :
        /\ \E k \in 1..Len(call[2]) : call[2][k].kind = "a"
        /\ \E k \in 1..Len(call[2]) :
             call[2][k].kind = "text" /\ \E q \in 1..Len(call[2][k].text) :
                IsOccurrence(call[2][k].text, 1, q, Len(call[2][k].text))
        /\ \E k \in 1..Len(call[2]) :
             call[2][k].kind = "text" /\ \A q \in 1..Len(call[2][k].text) :
                ~IsOccurrence(call[2][k].text, 1, q, Len(call[2][k].text))


(***************************************************************************)
(* SpecPlaceholder: RichText on @snippet lines with ids in and not in the  *)
(* registry, with the page's renderSnippet and without a snippetRenderer.  *)
(***************************************************************************)
\* `zz`
S_Unregistered == <<"z", "z">>

PoolPlaceholder ==
    {L_Blank, L_Text, SnippetLine(S_IdOnly), SnippetLine(S_DoubleQuoted),
     SnippetLine(S_TwoCommas), SnippetLine(S_Unregistered)}

InitPlaceholder ==
    /\ input \in TextsOf(PoolPlaceholder)
    /\ lines = <<>> /\ i = 0 /\ blocks = <<>>
    /\ pc = "start" /\ iter = 0 /\ headingCounts = EmptyCounts /\ rendered = <<>>
    /\ snippetRenderer \in {"absent", "renderSnippet"}
    /\ NormIdle /\ ViewerIdle /\ PageIdle

SpecPlaceholder == InitPlaceholder /\ [][NextRich]_vars

\* the render of this call is complete
AllRendered == pc = "done" /\ Len(rendered) = Len(blocks)

\* the renderer is absent or has no snippet of this id
NoNodeFor(id) == snippetRenderer = "absent" \/ id \notin SnippetIds

\* C19: once the text is rendered, every @snippet(id) line has given a
\* snippet block of that id, whether or not the id is registered, and where
\* the snippet renderer is absent or returns nothing for the id, the block
\* is rendered as the `Unknown snippet` placeholder naming the id.
C19_UnknownSnippetShown ==
    AllRendered =>
        \A k \in 1..Len(lines) :
            IsDirectiveLine(lines[k], AtSnippet) =>
                LET id == SnippetOfInside(InsideOf(lines[k], AtSnippet)).id
                IN  \E b \in 1..Len(blocks) :
                        /\ blocks[b].type = "snippet"
                        /\ blocks[b].id = id
                        /\ NoNodeFor(id) =>
                             /\ rendered[b].children[1][1].kind = "unknownSnippet"
                             /\ rendered[b].children[1][1].text = id


(***************************************************************************)
(* SpecDirective: every kind of directive line next to plain text lines.   *)
(***************************************************************************)
PoolDirective ==
    {L_Blank, L_Text, L_TextLead, L_H2, L_HiddenSpaced, L_Item, L_ImageA,
     L_YtShort, YoutubeLine(U_NotAUrl), L_Snippet}

InitDirective == InitRich(PoolDirective)

SpecDirective == InitDirective /\ [][NextRich]_vars

\* a list item line: a dash, whitespace, and an item text
IsListItemLine(l) ==
    LET t == trimEnd(l)
    IN  Len(t) >= 3 /\ t[1] = "-" /\ t[2] \in Ws

\* l starts one of the directive cases: heading, image, @youtube(...),
\* @snippet(...), list item
StartsDirective(l) ==
    \/ IsHeadingLine(l)
    \/ IsImageLine(l)
    \/ IsDirectiveLine(l, AtYoutube)
    \/ IsDirectiveLine(l, AtSnippet)
    \/ IsListItemLine(l)

\* C20: when parseBlocks returns, no paragraph block holds a directive line
\* together with other lines: a heading, image, @youtube(...), @snippet(...)
\* or list item line that follows a plain text line has ended the paragraph
\* (a paragraph that is one directive line alone is the fallback of an
\* unrecognised @youtube URL).
C20_DirectiveEndsParagraph ==
    pc = "done" =>
        \A b \in 1..Len(blocks) :
            blocks[b].type = "paragraph" =>
                LET ls == Split(blocks[b].text, LF)
                IN  \A j \in 1..Len(ls) : StartsDirective(ls[j]) => Len(ls) = 1


(***************************************************************************)
(* SpecList: list item lines (one dash, padded, a second dash inside the   *)
(* item, two leading dashes) among text, heading and blank lines.          *)
(***************************************************************************)
\* `-  y `
L_ItemPadded == <<"-", " ", " ", "y", " ">>
\* `- - w`
L_ItemDashInside == <<"-", " ", "-", " ", "w">>
\* `-- z`
L_TwoDashes == <<"-", "-", " ", "z">>

PoolList == {L_Blank, L_Text, L_H2, L_Item, L_ItemPadded, L_ItemDashInside, L_TwoDashes}

InitList == InitRich(PoolList)

SpecList == InitList /\ [][NextRich]_vars

\* first lines of the maximal runs of consecutive list item lines
ListRunStarts ==
    {k \in 1..Len(lines) :
        IsListItemLine(lines[k]) /\ (k = 1 \/ ~IsListItemLine(lines[k - 1]))}

\* last line of the run of list item lines that starts at line k
ListRunEnd(k) ==
    CHOOSE e \in k..Len(lines) :
        /\ \A j \in k..e : IsListItemLine(lines[j])
        /\ (e = Len(lines) \/ ~IsListItemLine(lines[e + 1]))

\* the remainder of a list item line after its dash, trimmed
ItemOfLine(l) == trim(SubSeq(trimEnd(l), 2, Len(trimEnd(l))))

ItemsOfRun(k) == [j \in 1..(ListRunEnd(k) - k + 1) |-> ItemOfLine(lines[k + j - 1])]

ListBlocks == SelectSeq(blocks, LAMBDA b : b.type = "list")

\* C21: when parseBlocks returns, the list blocks are, in order, one per
\* maximal run of consecutive lines that begin with `-` and whitespace, each
\* with the trimmed remainders of the lines of its run as items; a line
\* that does not begin with `-` and whitespace ends the run.
C21_ListRuns ==
    pc = "done" =>
        /\ Len(ListBlocks) = Cardinality(ListRunStarts)
        /\ \A n \in 1..Len(ListBlocks) :
            ListBlocks[n] = ListBlock(ItemsOfRun(KthOf(ListRunStarts, n)))


(***************************************************************************)
(* extractMarkdownHeadings and the table of contents of ProjectDetail      *)
(***************************************************************************)
TocItem(id, label, level) == [id |-> id, label |-> label, level |-> level]

RECURSIVE ExtractLoop(_, _, _, _, _)
\* for (const rawLine of lines), from line k on; skipHidden is the
\* `if (hidden) continue`
ExtractLoop(ls, k, prefix, counts, skipHidden) ==
    IF k > Len(ls) THEN <<>>
    ELSE LET h == HeadingMatch(trimEnd(ls[k]))
         IN  IF ~h.ok THEN ExtractLoop(ls, k + 1, prefix, counts, skipHidden)
             ELSE LET label == trim(h.text)
                  IN  IF label = <<>> \/ (skipHidden /\ h.bang)
                      THEN ExtractLoop(ls, k + 1, prefix, counts, skipHidden)
                      ELSE LET base == HeadingBase(prefix, label)
                               count == NextCount(counts, base)
                           IN  <<TocItem(HeadingId(base, count), label,
                                         IF h.marker = Hashes(2) THEN 2 ELSE 3)>>
                               \o ExtractLoop(ls, k + 1, prefix,
                                              MapSet(counts, base, count), skipHidden)

\* an extraction that lists hidden headings too
extractMarkdownHeadingsAll(markdown, prefix) ==
    ExtractLoop(Split(normalizeMarkdownText(markdown), LF), 1, prefix, EmptyCounts, FALSE)

extractMarkdownHeadings(markdown, prefix) ==
    ExtractLoop(Split(normalizeMarkdownText(markdown), LF), 1, prefix, EmptyCounts, TRUE)

\* const overviewHeadings = extractMarkdownHeadings(localizedDescription, 'overview--')
ExtractToc ==
    /\ pc # "idle"
    /\ ~toc.done
    /\ toc' = [done |-> TRUE, items |-> extractMarkdownHeadings(input, headingIdPrefix)]
    /\ UNCHANGED <<normVars, richVars, viewerVars, routeVars, libVars>>

NextToc == (RichStep /\ UNCHANGED pageVars) \/ ExtractToc

(***************************************************************************)
(* SpecToc: the description of a project, rendered by RichText and listed  *)
(* by extractMarkdownHeadings with the same prefix.                        *)
(***************************************************************************)
\* `##! T`
L_HiddenT == <<"#", "#", "!", " ", "T">>
PoolToc ==
    {L_Blank, L_Text, L_H2, L_H2Num, L_H3, L_HiddenSpaced, L_HiddenNoSpace,
     L_Hidden3, L_H2Symbols, L_HiddenT}

InitToc == InitRich(PoolToc)

SpecToc == InitToc /\ [][NextToc]_vars

\* the heading lines that are not hidden
VisibleHeadingLines == {k \in HeadingLines : ~HeadingOfLine(lines[k]).tocHidden}

\* C22: when the text is parsed and its table of contents extracted, the
\* heading blocks are those of the heading lines, hidden ones included, in
\* source order; and the table of contents lists, in source order, the
\* label and level of every heading line that is not hidden and of no
\* hidden one.
C22_HiddenNotInToc ==
    (pc = "done" /\ toc.done) =>
        /\ Len(HeadingBlocks) = Cardinality(HeadingLines)
        /\ \A n \in 1..Len(HeadingBlocks) :
            HeadingBlocks[n] = HeadingOfLine(lines[KthOf(HeadingLines, n)])
        /\ Len(toc.items) = Cardinality(VisibleHeadingLines)
        /\ \A n \in 1..Len(toc.items) :
            LET h == HeadingOfLine(lines[KthOf(VisibleHeadingLines, n)])
            IN  toc.items[n].label = h.text /\ toc.items[n].level = h.level

\* a text with a hidden and a visible heading has been parsed and listed
C22_Witness ==
    /\ pc = "done" /\ toc.done
    /\ \E n \in 1..Len(HeadingBlocks) : HeadingBlocks[n].tocHidden
    /\ Len(toc.items) >= 1
    /\ Len(toc.items) < Len(HeadingBlocks)

\* C23: pointer-enter and pointer-leave on any line, and a click on a line
\* without annotations, leave the selected annotation as it is; a step
\* that ends a selection is the close action or a change of snippet.id.
C23_SelectedUntilClosed ==
    [][/\ \A lineIndex \in LineIndexes :
            /\ handleLineHover(lineIndex) => selectedAnnotation' = selectedAnnotation
            /\ (handleLineClick(lineIndex) /\ OnLine(lineIndex) = {}) =>
                  selectedAnnotation' = selectedAnnotation
       /\ handleLineLeave => selectedAnnotation' = selectedAnnotation
       /\ (DetailOpen /\ ~DetailOpen') => (CloseDetail \/ snippet'.id # snippet.id)]_vars

\* the pointer has left a line while an annotation was selected, and the
\* annotation is still selected
C23_Witness ==
    /\ event.op = "leave"
    /\ event.hovered # NoAnnotation
    /\ event.selected # NoAnnotation
    /\ selectedAnnotation = event.selected

\* the base id C24 describes: the prefix, then the slug of the heading
\* text, or `section` when the slug is empty
BaseIdOf(text) ==
    headingIdPrefix \o (IF slugifyHeading(text) = <<>> THEN <<"s", "e", "c", "t", "i", "o", "n">>
                        ELSE slugifyHeading(text))

\* how many of the first k rendered blocks are headings with the base id of
\* block k
RenderedRank(k) ==
    Cardinality({j \in 1..k : /\ blocks[j].type = "heading"
                              /\ BaseIdOf(blocks[j].text) = BaseIdOf(blocks[k].text)})

\* how many of the first n entries of the table of contents have the base
\* id of entry n
TocRank(n) ==
    Cardinality({j \in 1..n : BaseIdOf(toc.items[j].label) = BaseIdOf(toc.items[n].label)})

\* the id of the N-th heading with base id `base`
NumberedId(base, N) == IF N = 1 THEN base ELSE base \o <<"-">> \o ToDecimal(N)

\* C24: every rendered heading, and every entry of the table of contents,
\* has as id its base id (prefix, then slug or `section`) when it is the
\* first with that base id, and the base id followed by `-N` when it is the
\* N-th, N >= 2.
C24_HeadingNumbering ==
    /\ \A k \in 1..Len(rendered) :
        blocks[k].type = "heading" =>
            rendered[k].id = NumberedId(BaseIdOf(blocks[k].text), RenderedRank(k))
    /\ \A n \in 1..Len(toc.items) :
        toc.items[n].id = NumberedId(BaseIdOf(toc.items[n].label), TocRank(n))

\* a second heading of one base id and a heading with an empty slug have
\* been rendered and listed
C24_Witness ==
    /\ AllRendered /\ toc.done
    /\ \E k \in 1..Len(rendered) : blocks[k].type = "heading" /\ RenderedRank(k) = 2
    /\ \E n \in 1..Len(toc.items) : TocRank(n) = 2
    /\ \E k \in 1..Len(rendered) :
        blocks[k].type = "heading" /\ slugifyHeading(blocks[k].text) = <<>>

\* the place in blocks of the heading block of heading line k
BlockOfHeadingLine(k) ==
    KthOf(RenderedHeadings, Cardinality({j \in HeadingLines : j <= k}))

\* C25: when the text is rendered and its table of contents extracted with
\* the same prefix, every entry of the table of contents has the id that
\* RichText gave to the heading of the same source line.
C25_TocTargetsItsHeading ==
    (AllRendered /\ toc.done) =>
        \A n \in 1..Len(toc.items) :
            toc.items[n].id = rendered[BlockOfHeadingLine(KthOf(VisibleHeadingLines, n))].id

(***************************************************************************)
(* ProjectDetail: the load effect of the page and the two mobile overlays  *)
(* (the menu of the Navbar it renders and its own table-of-contents        *)
(* panel).  A state update and the render and effects it causes are one    *)
(* step.                                                                   *)
(***************************************************************************)
\* the largest number of loads started in one life of the page
MaxLoads == 3

\* the route parameters tried; no project has the slug "c"
Slugs == {"a", "b", "c"}

\* what loadProjectsList() resolves with: "a" has content blocks, "b" none
ProjectsList ==
    << [slug |-> "a", content_blocks |-> 1], [slug |-> "b", content_blocks |-> 0] >>

\* list.find((p) => p.slug === slug) || null
FindBySlug(list, s) ==
    IF \E k \in 1..Len(list) : list[k].slug = s
    THEN << list[CHOOSE k \in 1..Len(list) :
                  /\ list[k].slug = s
                  /\ \A j \in 1..(k - 1) : list[j].slug # s] >>
    ELSE NullProject

\* (project?.content_blocks?.length ?? 0) > 0
hasExtraContent(p) == p # NullProject /\ p[1].content_blocks > 0

\* the page renders <Navbar /> once it is not loading and has a project
NavbarMounted(p, l) == ~l /\ p # NullProject

\* the load effect: runs on mount and whenever slug changes; nothing cancels
\* a load that is already under way
StartLoad(s) == Append(loads, [slug |-> s, stage |-> "pending"])

InitPage ==
    /\ NormIdle /\ RichIdle /\ ViewerIdle /\ TocIdle /\ LibIdle
    /\ slug \in Slugs
    /\ project = NullProject
    /\ loading = TRUE
    /\ loads = << [slug |-> slug, stage |-> "pending"] >>
    /\ mobileMenuOpen = FALSE
    /\ mobileTocOpen = FALSE
    /\ overlayEvent = NoOverlayEvent

\* the route changes to another project: useParams gives a new slug and the
\* load effect runs again
Navigate(s) ==
    /\ s # slug
    /\ Len(loads) < MaxLoads
    /\ slug' = s
    /\ loads' = StartLoad(s)
    /\ UNCHANGED <<project, loading, mobileMenuOpen, mobileTocOpen, overlayEvent>>

\* the render after setProject/setLoading: the panel closes when the project
\* has no extra content, and an unmounted Navbar loses its state
AfterRender(p, l) ==
    /\ mobileTocOpen' = (mobileTocOpen /\ hasExtraContent(p))
    /\ mobileMenuOpen' = (mobileMenuOpen /\ NavbarMounted(p, l))

\* Promise.all resolves for the load started k-th: the project is looked up
\* by the slug that load was started with
LoadResolves(k) ==
    /\ loads[k].stage = "pending"
    /\ project' = FindBySlug(ProjectsList, loads[k].slug)
    /\ loading' = FALSE
    /\ loads' = [loads EXCEPT ![k].stage = "resolved"]
    /\ AfterRender(project', loading')
    /\ UNCHANGED <<slug, overlayEvent>>

\* the load started k-th rejects: catch logs, finally clears loading
LoadFails(k) ==
    /\ loads[k].stage = "pending"
    /\ loading' = FALSE
    /\ loads' = [loads EXCEPT ![k].stage = "failed"]
    /\ AfterRender(project, loading')
    /\ UNCHANGED <<slug, project, overlayEvent>>

\* Navbar's listener of `codefolio:overlay`
NavOnOverlay(detail, open) ==
    IF detail.source = "toc" /\ detail.open THEN FALSE ELSE open

\* ProjectDetail's listener of `codefolio:overlay`
TocOnOverlay(detail, open) ==
    IF detail.source = "nav" /\ detail.open THEN FALSE ELSE open

\* toggleMobileMenu without the dispatch
toggleMobileMenuSilent ==
    /\ NavbarMounted(project, loading)
    /\ mobileMenuOpen' = ~mobileMenuOpen
    /\ UNCHANGED <<slug, project, loading, loads, mobileTocOpen, overlayEvent>>

\* toggleMobileMenu: the updater flips the state and dispatches the event
toggleMobileMenu ==
    /\ NavbarMounted(project, loading)
    /\ LET next == ~mobileMenuOpen
           detail == [source |-> "nav", open |-> next]
       IN  /\ mobileMenuOpen' = NavOnOverlay(detail, next)
           /\ mobileTocOpen' = TocOnOverlay(detail, mobileTocOpen)
           /\ overlayEvent' = [source |-> "nav", open |-> next,
                                otherWasOpen |-> mobileTocOpen]
    /\ UNCHANGED <<slug, project, loading, loads>>

\* the button of the table-of-contents bar
ToggleToc ==
    /\ ~loading
    /\ hasExtraContent(project)
    /\ LET next == ~mobileTocOpen
           detail == [source |-> "toc", open |-> next]
       IN  /\ mobileTocOpen' = TocOnOverlay(detail, next)
           /\ mobileMenuOpen' = NavOnOverlay(detail, mobileMenuOpen)
           /\ overlayEvent' = [source |-> "toc", open |-> next,
                                otherWasOpen |-> mobileMenuOpen]
    /\ UNCHANGED <<slug, project, loading, loads>>

\* Escape: the keydown listener of each open overlay closes it
EscapeKey ==
    /\ mobileMenuOpen \/ mobileTocOpen
    /\ mobileMenuOpen' = FALSE
    /\ mobileTocOpen' = FALSE
    /\ UNCHANGED <<slug, project, loading, loads, overlayEvent>>

\* pointerdown outside the mobile menu
PointerDownOutside ==
    /\ mobileMenuOpen
    /\ mobileMenuOpen' = FALSE
    /\ UNCHANGED <<slug, project, loading, loads, mobileTocOpen, overlayEvent>>

\* the backdrop, the Close button or a link of the panel
CloseToc ==
    /\ mobileTocOpen
    /\ mobileTocOpen' = FALSE
    /\ UNCHANGED <<slug, project, loading, loads, mobileMenuOpen, overlayEvent>>

PageStep ==
    \/ \E s \in Slugs : Navigate(s)
    \/ \E k \in 1..Len(loads) : LoadResolves(k)
    \/ \E k \in 1..Len(loads) : LoadFails(k)
    \/ toggleMobileMenu
    \/ ToggleToc
    \/ EscapeKey
    \/ PointerDownOutside
    \/ CloseToc

NextPage == PageStep /\ UNCHANGED <<normVars, richVars, viewerVars, tocVars, libVars>>

SpecPage == InitPage /\ [][NextPage]_vars

\* C26: once every load started by the page has resolved, the project
\* displayed is the one of the current route slug, or none when no project
\* has that slug.
C26_ShowsCurrentSlug ==
    (\A k \in 1..Len(loads) : loads[k].stage = "resolved") =>
        project = FindBySlug(ProjectsList, slug)

\* C28: the mobile menu and the mobile table-of-contents panel are never
\* open together.
C28_NeverBothOpen == ~(mobileMenuOpen /\ mobileTocOpen)

\* the panel was opened by its toggle while the menu was open, and the menu
\* is closed
C28_Witness ==
    /\ overlayEvent = [source |-> "toc", open |-> TRUE, otherWasOpen |-> TRUE]
    /\ mobileTocOpen
    /\ ~mobileMenuOpen

(***************************************************************************)
(* The fetches of one viewer instance.                                     *)
(***************************************************************************)
\* the k-th run of the code loading effect called fetch
IssuedFetch(k) == effects[k].stage \notin {"set", "returned"}

\* its fetch is under way and its cleanup has not run
LiveFetch(k) == effects[k].stage \in {"fetching", "reading"} /\ ~effects[k].didCancel

\* the dependencies of the k-th run
DepsOf(k) == <<effects[k].inlineCode, effects[k].code_path>>

AtMostOneLive ==
    \A j, k \in 1..Len(effects) : LiveFetch(j) /\ LiveFetch(k) => j = k

PreviousCancelled == \A k \in 1..(Len(effects) - 1) : effects[k].didCancel

\* C27 as stated: at most one fetch is live, every earlier run is cancelled,
\* and no two fetches of the instance were issued for the same pair of inline
\* code and code path.
C27_OneFetchPerValue ==
    /\ AtMostOneLive
    /\ PreviousCancelled
    /\ \A j, k \in 1..Len(effects) :
           IssuedFetch(j) /\ IssuedFetch(k) /\ DepsOf(j) = DepsOf(k) => j = k

\* C27: at most one fetch is live, every earlier run is cancelled, and a run
\* follows another only when the inline code or the code path changed.
C27_OneLiveFetch ==
    /\ AtMostOneLive
    /\ PreviousCancelled
    /\ \A k \in 1..(Len(effects) - 1) : DepsOf(k) # DepsOf(k + 1)

\* a fetch was started while an earlier one was still under way: the earlier
\* one is cancelled and the later one is live
C27_Witness ==
    \E j, k \in 1..Len(effects) :
        /\ j < k
        /\ effects[j].stage \in {"fetching", "reading"} /\ effects[j].didCancel
        /\ LiveFetch(k)

(***************************************************************************)
(* SpecContent: texts with lines of every kind the parser knows.           *)
(***************************************************************************)
PoolContent ==
    {L_Blank, L_Space, L_Text, L_TextTrail, L_H2, L_Item, L_TwoDashes, L_ImageA,
     L_ImagePadded, L_YtShort, YoutubeLine(U_NotAUrl), L_Snippet}

InitContent == InitRich(PoolContent)

SpecContent == InitContent /\ [][NextRich]_vars

\* what a block carries of its source lines, one unit per line: the heading,
\* each image, the video, the snippet, each list item, each line of the
\* paragraph text
UnitsOf(b) ==
    CASE b.type = "heading" -> << [kind |-> "heading", val |-> b] >>
      [] b.type = "image" -> << [kind |-> "image", val |-> [alt |-> b.alt, src |-> b.src]] >>
      [] b.type = "carousel" ->
            [k \in 1..Len(b.images) |-> [kind |-> "image", val |-> b.images[k]]]
      [] b.type = "youtube" -> << [kind |-> "youtube", val |-> b.embedUrl] >>
      [] b.type = "snippet" -> << [kind |-> "snippet", val |-> b] >>
      [] b.type = "list" -> [k \in 1..Len(b.items) |-> [kind |-> "item", val |-> b.items[k]]]
      [] b.type = "paragraph" ->
            LET ls == Split(b.text, LF)
            IN  [k \in 1..Len(ls) |-> [kind |-> "line", val |-> ls[k]]]

\* the units of a sequence of blocks, in order
RECURSIVE UnitsOfBlocks(_)
UnitsOfBlocks(bs) == IF bs = <<>> THEN <<>> ELSE UnitsOf(Head(bs)) \o UnitsOfBlocks(Tail(bs))

\* l is one or more dashes, whitespace and a text
IsDashItemLine(l) ==
    LET t == trimEnd(l)
    IN  \E d \in 1..Len(t) :
            /\ \A k \in 1..d : t[k] = "-"
            /\ d + 1 < Len(t) /\ t[d + 1] \in Ws

\* the text of such a line after its first dashes, trimmed
DashItemOfLine(l) ==
    LET t == trimEnd(l)
        d == CHOOSE n \in 1..Len(t) : (\A k \in 1..n : t[k] = "-") /\ t[n + 1] # "-"
    IN  trim(SubSeq(t, d + 1, Len(t)))

\* unit u carries the content of line l
Represents(u, l) ==
    CASE u.kind = "heading" -> IsHeadingLine(l) /\ u.val = HeadingOfLine(l)
      [] u.kind = "image" -> IsImageLine(l) /\ u.val = ImageOfLine(l)
      [] u.kind = "youtube" ->
            /\ IsDirectiveLine(l, AtYoutube)
            /\ u.val # Null
            /\ u.val = toYouTubeEmbedUrl(InsideOf(l, AtYoutube))
      [] u.kind = "snippet" ->
            /\ IsDirectiveLine(l, AtSnippet)
            /\ u.val = SnippetOfInside(InsideOf(l, AtSnippet))
      [] u.kind = "item" -> IsDashItemLine(l) /\ u.val = DashItemOfLine(l)
      [] u.kind = "line" -> trim(u.val) = trim(l)

\* the non-blank lines of the text
NonBlankLines == {k \in 1..Len(lines) : ~IsBlankLine(lines[k])}

\* C29: when parseBlocks returns, the units of its blocks, taken in order,
\* are as many as the non-blank lines of the text, and the n-th unit carries
\* the content of the n-th non-blank line: no line is dropped, none is
\* carried twice, and the blocks follow the order of the lines.
C29_NoDropNoDuplicate ==
    pc = "done" =>
        LET units == UnitsOfBlocks(blocks)
        IN  /\ Len(units) = Cardinality(NonBlankLines)
            /\ \A n \in 1..Len(units) : Represents(units[n], lines[KthOf(NonBlankLines, n)])

\* a text of three non-blank lines was parsed into blocks of more than one
\* type, one of them carrying two lines
C29_Witness ==
    /\ pc = "done"
    /\ Cardinality(NonBlankLines) = 3
    /\ Len(blocks) = 2
    /\ blocks[1].type # blocks[2].type
    /\ \E b \in 1..2 : blocks[b].type \in {"carousel", "list", "paragraph"}

(***************************************************************************)
(* lib/projects: mergeProjects and sortProjects.  A project is its id, its *)
(* slug, its order_index and, for created_at and the title, the rank of    *)
(* the string in the order of localeCompare (rank 0 is the empty string);  *)
(* `origin` stands for the identity of the object: which list holds it.    *)
(***************************************************************************)
\* the largest length of the file list and of the draft list
MaxEntries == 2

ProjectEntry(origin, id, s, order_index, created_at, title) ==
    [origin |-> origin, id |-> id, slug |-> s, order_index |-> order_index,
     created_at |-> created_at, title |-> title]

\* the projects a list may hold: ids `x`, one space and empty; slugs `x` and
\* `y`; equal and different order_index, created_at and title
EntriesOf(origin) ==
    {ProjectEntry(origin, <<"x">>, <<"x">>, 1, 0, 0),
     ProjectEntry(origin, <<>>, <<"x">>, 0, 1, 0),
     ProjectEntry(origin, <<" ">>, <<"y">>, 0, 0, 1),
     ProjectEntry(origin, <<" ">>, <<"x">>, 0, 0, 0),
     ProjectEntry(origin, <<"x">>, <<"y">>, 0, 1, 1),
     ProjectEntry(origin, <<>>, <<"y">>, 1, 1, 0)}

\* the comparator of sortProjects: negative, zero or positive
CompareProjects(a, b) ==
    IF a.order_index # b.order_index THEN a.order_index - b.order_index
    ELSE IF a.created_at # b.created_at
    THEN (IF a.created_at < b.created_at THEN -1 ELSE 1)
    ELSE IF a.title # b.title THEN (IF a.title < b.title THEN -1 ELSE 1)
    ELSE 0

\* p placed after the elements of the sorted list that do not come after it
InsertStable(sorted, p) ==
    LET before == {k \in 0..Len(sorted) :
                      \A j \in (k + 1)..Len(sorted) : CompareProjects(sorted[j], p) > 0}
        at == CHOOSE k \in before : \A j \in before : k <= j
    IN  SubSeq(sorted, 1, at) \o <<p>> \o SubSeq(sorted, at + 1, Len(sorted))

\* [...list].sort(comparator): Array.prototype.sort is stable
RECURSIVE SortInto(_, _)
SortInto(sorted, rest) ==
    IF rest = <<>> THEN sorted ELSE SortInto(InsertStable(sorted, Head(rest)), Tail(rest))

sortProjects(list) == SortInto(<<>>, list)

IdTag == <<"i", "d", ":">>
SlugTag == <<"s", "l", "u", "g", ":">>

\* byKey
byKey(p) == IF Len(trim(p.id)) > 0 THEN IdTag \o p.id ELSE SlugTag \o p.slug

\* fileMap.set(byKey(p), p) for each p of the list: a key keeps the place of
\* its first insertion and the value of its last
RECURSIVE FileMapOf(_, _)
FileMapOf(map, list) ==
    IF list = <<>> THEN map
    ELSE LET p == Head(list)
             at == {k \in 1..Len(map) : byKey(map[k]) = byKey(p)}
         IN  FileMapOf(IF at = {} THEN Append(map, p)
                       ELSE [map EXCEPT ![CHOOSE k \in at : TRUE] = p],
                       Tail(list))

KeysOf(list) == {byKey(list[k]) : k \in 1..Len(list)}

\* a merge that keeps the file entries whose key a draft entry has
mergeProjectsKeepsFile(files, drafts) ==
    sortProjects(drafts \o FileMapOf(<<>>, files))

\* mergeProjects: the draft entries, then the entries left in fileMap
mergeProjects(files, drafts) ==
    LET seen == KeysOf(drafts)
        fileMap == SelectSeq(FileMapOf(<<>>, files), LAMBDA p : byKey(p) \notin seen)
    IN  sortProjects(drafts \o SelectSeq(fileMap, LAMBDA p : byKey(p) \notin seen))

InitMerge ==
    /\ NormIdle /\ RichIdle /\ ViewerIdle /\ TocIdle /\ RouteIdle
    /\ fileList \in SeqsUpTo(EntriesOf("file"), MaxEntries)
    /\ draftList \in SeqsUpTo(EntriesOf("draft"), MaxEntries)
    /\ merged = NoMerge

\* loadProjectsList calls mergeProjects(fileList, draft)
Merge ==
    /\ ~merged.done
    /\ merged' = [done |-> TRUE, list |-> mergeProjects(fileList, draftList)]
    /\ UNCHANGED <<fileList, draftList>>

NextMerge == Merge /\ UNCHANGED <<normVars, richVars, viewerVars, tocVars, routeVars>>

SpecMerge == InitMerge /\ [][NextMerge]_vars

\* the key as the claim words it: the id when it is not empty, else the slug
StatedKey(p) == IF p.id # <<>> THEN p.id ELSE p.slug

\* a comes before b, or ties with it, by order_index, then created_at, then
\* title
InOrder(a, b) ==
    \/ a.order_index < b.order_index
    \/ /\ a.order_index = b.order_index
       /\ \/ a.created_at < b.created_at
          \/ a.created_at = b.created_at /\ a.title <= b.title

\* the property of the merge, for a notion of key
MergeProperty(Key(_)) ==
    LET m == merged.list
    IN  (/\ merged.done
         /\ \A j, k \in 1..Len(draftList) : j # k => Key(draftList[j]) # Key(draftList[k]))
        =>
        /\ \A k \in 1..Len(draftList) : \E n \in 1..Len(m) : m[n] = draftList[k]
        /\ \A n \in 1..Len(m) :
               m[n].origin = "file" =>
                   /\ \E k \in 1..Len(fileList) : fileList[k] = m[n]
                   /\ \A k \in 1..Len(draftList) : Key(draftList[k]) # Key(m[n])
        /\ \A a, b \in 1..Len(m) : a # b => Key(m[a]) # Key(m[b])
        /\ \A n \in 1..(Len(m) - 1) : InOrder(m[n], m[n + 1])

\* C30 as stated: with the key of a project being its id when non-empty and
\* else its slug, and the draft keys pairwise distinct, the result of
\* mergeProjects has every draft entry, has a file entry only if no draft
\* entry has its key, has no two entries of one key, and is sorted.
C30_MergeByStatedKey == MergeProperty(StatedKey)

\* C30: with the key of a project being byKey (`id:` and the id when the id
\* has a character other than whitespace, else `slug:` and the slug), and
\* the draft keys pairwise distinct, the result of mergeProjects has every
\* draft entry, has a file entry only if no draft entry has its key, has no
\* two entries of one key, and is sorted by order_index, then created_at,
\* then title.
C30_MergeByKey == MergeProperty(byKey)

\* a merge of drafts of distinct keys with a file list of which one entry has
\* the key of a draft and another has not: the first is left out, the second
\* is in the result
C30_Witness ==
    /\ merged.done
    /\ Len(draftList) = 2
    /\ byKey(draftList[1]) # byKey(draftList[2])
    /\ \E k \in 1..Len(fileList) : byKey(fileList[k]) \in KeysOf(draftList)
    /\ \E n \in 1..Len(merged.list) : merged.list[n].origin = "file"
    /\ Len(merged.list) = 3

=============================================================================
